---------------------------- MODULE Spec2Model ----------------------------
(***************************************************************************)
(* A model of the Swift accessor generator src/src/idl_gen_swift.cpp.      *)
(*                                                                         *)
(* The generator reads a schema IR (StructDef / FieldDef / Type records)   *)
(* and emits text.  The emitted text is modelled as a sequence of tokens,  *)
(* one token per emitted statement, in the order the generator appends     *)
(* them to `code`.  What the emitted statements do when they run is        *)
(* modelled by the actions that interpret the tokens (the buffer builder,  *)
(* the table accessors, the key lookup).                                   *)
(***************************************************************************)
EXTENDS Integers, Sequences, FiniteSets, TLC

VARIABLES
    structs,      \* parser_.structs_.vec: the StructDefs in declaration order
    enums,        \* parser_.enums_.vec: the EnumDefs in declaration order
    opts,         \* parser_.opts: one_file and mutable_buffer
    it,           \* generate(): position of the loop over parser_.structs_.vec
    eit,          \* generate(): position of the loop over parser_.enums_.vec
    code,         \* code[i]: the text GenStruct emitted for structs[i], as tokens
    ecode,        \* ecode[i]: the text GenEnum emitted for enums[i], as tokens
    one_file_code,\* generate(): std::string one_file_code
    units,        \* the files handed to SaveFile by this run, in order
    prev,         \* the files handed to SaveFile by the runs before this one
    runs,         \* number of the run of generate() that is under way
    pc,           \* position of the run: "init", "generated", ...
    vec,          \* lookupByKey: keys of the records of the serialized vector
    key,          \* lookupByKey: the query key
    start,        \* lookupByKey: var start
    span,         \* lookupByKey: var span
    probes,       \* lookupByKey: number of key reads so far
    result,       \* what the emitted routine returned: Found(index), Returned(v), Nil
    buf,          \* FlatBufferBuilder: the bytes written, lowest address first
    ip,           \* position in the emitted routine that is running
    args,         \* the arguments passed to the emitted routine that was called
    bb_pos,       \* offset of the record built (from the end), received (from the front)
    vtable,       \* the table under construction or read: one entry per slot
    added         \* positions of the fields whose add<Field> was called

genVars    == <<structs, enums, opts, it, eit, code, ecode, one_file_code,
               units, prev, runs>>
lookupVars == <<vec, key, start, span, probes, result>>
buildVars  == <<buf, ip, args, bb_pos>>
tableVars  == <<vtable, added>>
vars       == <<structs, enums, opts, it, eit, code, ecode, one_file_code,
               units, prev, runs, pc, vec, key, start, span, probes,
               result, buf, ip, args, bb_pos, vtable, added>>

\* The absence marker a routine returns (nil), and a returned record.
Nil == [nil |-> TRUE]

Found(i) == [nil |-> FALSE, index |-> i]

-----------------------------------------------------------------------------
(* Bounds of the model.                                                    *)

\* Longest vector handed to lookupByKey.
MaxVecLen == 7

\* Most fields of the innermost fixed record, and of the outermost one.
MaxInnerFields == 2

MaxOuterFields == 2

\* Most bytes already in the buffer when a fixed record is created.
MaxPrior == 1
MaxTableFields == 2
MaxEnumVals == 3
MaxEnumValue == 10

\* Elements of a serialized vector of scalars.
MaxElems == 2

\* Most runs of generate() on one schema.
MaxRuns == 2

\* Most enums, and most records, of a schema handed to generate().
MaxEntities == 2

\* Most record offsets handed to createMySortedVectorOfTables.
MaxSortLen == 3

\* Longest vector, in any order, handed to lookupByKey.
MaxProbeLen == 6

-----------------------------------------------------------------------------
(* The schema IR (flatbuffers/idl.h), as far as the generator reads it.    *)

ScalarTypes ==
    {"utype", "bool", "byte", "ubyte", "short", "ushort", "int", "uint",
     "long", "ulong", "float", "double"}

IntegerTypes == ScalarTypes \ {"float", "double"}

IsScalar(base_type) == base_type \in ScalarTypes

IsInteger(base_type) == base_type \in IntegerTypes

\* A Type: base_type, element (of a vector), struct_def and enum_def are
\* names, "" for a null pointer.
MkType(base_type, element, struct_def, enum_def) ==
    [base_type |-> base_type, element |-> element,
     struct_def |-> struct_def, enum_def |-> enum_def]

ScalarType(base_type) == MkType(base_type, "none", "", "")

StringType == MkType("string", "none", "", "")

\* Type::VectorType(): the element type of a vector.
VectorType(type) == MkType(type.element, "none", type.struct_def, type.enum_def)

\* A FieldDef.  value.offset is `offset`, value.constant is `constant`.
MkField(name, type, offset, padding, required, deprecated, iskey, constant) ==
    [name |-> name, type |-> type, offset |-> offset, padding |-> padding,
     required |-> required, deprecated |-> deprecated, key |-> iskey,
     constant |-> constant]

\* FieldIndexToOffset: the vtable offset of the table field declared at
\* 0-based position i.
FieldIndexToOffset(i) == 4 + 2 * i

\* A StructDef.
MkStruct(name, fixed, fields, minalign, bytesize, sortbysize, has_key) ==
    [name |-> name, fixed |-> fixed, fields |-> fields, minalign |-> minalign,
     bytesize |-> bytesize, sortbysize |-> sortbysize, has_key |-> has_key,
     generated |-> FALSE]

\* An EnumDef: vals is the sequence of its EnumVals [name, value].
MkEnum(name, vals) ==
    [name |-> name, vals |-> vals, generated |-> FALSE,
     underlying_type |-> ScalarType("byte")]

\* parser_.enums_.Lookup(name)
EnumNamed(edefs, name) ==
    edefs[CHOOSE i \in 1..Len(edefs) : edefs[i].name = name]

\* SizeOf(BaseType): the inline size of a value of the base type.
SizeOf(base_type) ==
    CASE base_type \in {"utype", "bool", "byte", "ubyte"} -> 1
      [] base_type \in {"short", "ushort"} -> 2
      [] base_type \in {"long", "ulong", "double"} -> 8
      [] OTHER -> 4

\* parser_.structs_.Lookup(name)
StructNamed(defs, name) ==
    defs[CHOOSE i \in 1..Len(defs) : defs[i].name = name]

\* IsStruct(type): a fixed record stored inline.
IsStruct(defs, type) ==
    type.base_type = "struct" /\ StructNamed(defs, type.struct_def).fixed

\* InlineSize(type) and InlineAlignment(type).
InlineSize(defs, type) ==
    IF IsStruct(defs, type) THEN StructNamed(defs, type.struct_def).bytesize
    ELSE SizeOf(type.base_type)

InlineAlignment(defs, type) ==
    IF IsStruct(defs, type) THEN StructNamed(defs, type.struct_def).minalign
    ELSE SizeOf(type.base_type)

-----------------------------------------------------------------------------
(* Emission helpers.                                                       *)

Tok(op) == [op |-> op]

RECURSIVE Concat(_)
\* The concatenation of a sequence of token sequences.
Concat(parts) ==
    IF parts = <<>> THEN <<>> ELSE Head(parts) \o Concat(Tail(parts))

Ops(toks) == [i \in 1..Len(toks) |-> toks[i].op]

\* The non-deprecated field carrying the key flag, as the add-method loop of
\* GenStruct finds it (the last one when several carry it); 0 for nullptr.
KeyFieldIndex(struct_def) ==
    LET ks == {i \in 1..Len(struct_def.fields) :
                  /\ ~struct_def.fields[i].deprecated
                  /\ struct_def.fields[i].key}
    IN  IF ks = {} THEN 0 ELSE CHOOSE i \in ks : \A j \in ks : j <= i

-----------------------------------------------------------------------------
(* Type Mapper.                                                            *)

\* IsEnum(type)
IsEnum(type) == type.enum_def # "" /\ IsInteger(type.base_type)

\* GenTypeBasic(type, enableLangOverrides): the name of the Swift type.
\* swift_typename[base_type] is written as the base type's own name.
GenTypeBasic(type, enableLangOverrides) ==
    IF enableLangOverrides /\ IsEnum(type) THEN type.enum_def
    ELSE IF enableLangOverrides /\ type.base_type = "struct"
    THEN "Offset<" \o type.struct_def \o ">"
    ELSE type.base_type

\* GenTypePointer(type) and GenTypeGet(type): the type an accessor returns.
RECURSIVE GenTypeGet(_)
GenTypeGet(type) ==
    IF IsScalar(type.base_type) THEN GenTypeBasic(type, TRUE)
    ELSE CASE type.base_type = "string" -> "String"
           [] type.base_type = "vector" -> GenTypeGet(VectorType(type))
           [] type.base_type = "struct" -> type.struct_def
           [] type.base_type = "union"  -> "TTable"
           [] OTHER -> "Table"

\* GenTypeNameDest(type); DestinationType(type) is type itself.
GenTypeNameDest(type) == GenTypeGet(type)

RECURSIVE DestinationCast(_)
\* DestinationCast(type): the text in front of a raw read.
DestinationCast(type) ==
    IF type.base_type = "vector" THEN DestinationCast(VectorType(type))
    ELSE IF IsEnum(type) THEN type.enum_def \o "(rawValue: "
    ELSE ""

\* DestinationMask(type): the text behind a raw read.
DestinationMask(type) ==
    IF type.base_type = "vector" THEN DestinationCast(VectorType(type))
    ELSE IF IsEnum(type) THEN ")!"
    ELSE ""

\* Literals of the emitted text.
RawLit(text) == [lit |-> "raw", text |-> text]

BoolLit(flag) == [lit |-> "bool", flag |-> flag]

CaseLit(enum, name) == [lit |-> "case", enum |-> enum, name |-> name]

RECURSIVE DigitsToInt(_, _)
DigitsToInt(text, acc) ==
    IF text = <<>> THEN acc
    ELSE DigitsToInt(Tail(text), 10 * acc + (Head(text) - 48))

\* StringToInt: the number a decimal text (bytes, '-' is 45) denotes.
StringToInt(text) ==
    IF text # <<>> /\ Head(text) = 45 THEN 0 - DigitsToInt(Tail(text), 0)
    ELSE DigitsToInt(text, 0)

\* A default that is the first enumerator whatever the constant is.
GenEnumDefaultValueFirstCase(edefs, field) ==
    CaseLit(field.type.enum_def,
            EnumNamed(edefs, field.type.enum_def).vals[1].name)

\* GenEnumDefaultValue(value): the case of the first enumerator whose value
\* is the default, or the constant as it stands when there is none.
GenEnumDefaultValue(edefs, field) ==
    LET enum_def == EnumNamed(edefs, field.type.enum_def)
        default_value == StringToInt(field.constant)
        hits == {i \in 1..Len(enum_def.vals) :
                    enum_def.vals[i].value = default_value}
    IN  IF hits = {} THEN RawLit(field.constant)
        ELSE LET first == CHOOSE i \in hits : \A j \in hits : i <= j
                 n == enum_def.vals[first].name
             IN  CaseLit(enum_def.name, IF n = "NONE" THEN "none" ELSE n)

\* A default literal that forgets the declared constant.
GenDefaultValueZero(edefs, field, enableLangOverrides) == RawLit(<< 48 >>)

\* GenDefaultValue(value, enableLangOverrides)
GenDefaultValue(edefs, field, enableLangOverrides) ==
    IF enableLangOverrides /\ field.type.enum_def # ""
          /\ field.type.base_type # "union"
    THEN GenEnumDefaultValue(edefs, field)
    ELSE IF field.type.base_type = "bool"
    THEN BoolLit(field.constant # << 48 >>)
    ELSE RawLit(field.constant)

\* GenMethod(type): the method name for use with add/put calls.
GenMethod(defs, type) ==
    IF IsScalar(type.base_type) THEN GenTypeBasic(type, FALSE)
    ELSE IF IsStruct(defs, type) THEN "Struct" ELSE "Offset"

\* GenGetter(type) for a scalar: getT, and `0 != get` for a bool.
GenScalarGetter(type) ==
    [fn |-> "get", type |-> GenTypeBasic(type, FALSE),
     nonzero |-> (type.base_type = "bool")]

-----------------------------------------------------------------------------
(* Enum Emitter.                                                           *)

kMaxSparseness == 5

\* GenEnum, `range`: the value of the last declared enumerator minus the
\* value of the first declared one, plus 1.
EnumRange(enum_def) ==
    enum_def.vals[Len(enum_def.vals)].value - enum_def.vals[1].value + 1

\* Division of int64_t, which truncates towards zero.
TruncDiv(a, b) == IF a >= 0 THEN a \div b ELSE 0 - ((0 - a) \div b)

\* A threshold that lets the density 5 pass.
EmitsNamesUpToThreshold(range, count) ==
    TruncDiv(range, count) <= kMaxSparseness

\* GenEnum, the condition under which the name table is emitted:
\* range / vals.vec.size() < kMaxSparseness.
EmitsNames(range, count) == TruncDiv(range, count) < kMaxSparseness

\* The name of an enumerator as a case: none for NONE.
CaseName(name) == IF name = "NONE" THEN "none" ELSE name

RECURSIVE NamesFrom(_, _)
\* GenEnum, the loop that fills the name table: for every enumerator,
\* `while (val++ != value)` puts an empty string, then the name follows.
\* The loop comes to its end only if val never is beyond the value of the
\* enumerator at hand.
NamesFrom(vals, val) ==
    IF vals = <<>> THEN <<>>
    ELSE IF val = Head(vals).value
    THEN << CaseName(Head(vals).name) >> \o NamesFrom(Tail(vals), val + 1)
    ELSE << "" >> \o NamesFrom(vals, val + 1)

\* A table that leaves the gaps out.
NamesTableWithoutGaps(enum_def) ==
    [i \in 1..Len(enum_def.vals) |-> CaseName(enum_def.vals[i].name)]

\* GenEnum, the entries of `names`.
NamesTable(enum_def) == NamesFrom(enum_def.vals, enum_def.vals[1].value)

\* The name table is emitted and val runs past the value of an enumerator:
\* `while (val++ != value)` then counts on without an end.
NamesNeverEnd(enum_def) ==
    /\ ~enum_def.generated
    /\ EmitsNames(EnumRange(enum_def), Len(enum_def.vals))
    /\ \E i \in 2..Len(enum_def.vals) :
          enum_def.vals[i].value <= enum_def.vals[i - 1].value

\* GenEnum(enum_def)
GenEnum(enum_def) ==
    IF enum_def.generated THEN <<>>
    ELSE << [op |-> "enum", name |-> enum_def.name,
             underlying |-> GenTypeBasic(enum_def.underlying_type, FALSE)] >>
         \o [i \in 1..Len(enum_def.vals) |->
               [op |-> "case", name |-> CaseName(enum_def.vals[i].name),
                value |-> enum_def.vals[i].value]]
         \o (IF EmitsNames(EnumRange(enum_def), Len(enum_def.vals))
             THEN << [op |-> "names", entries |-> NamesTable(enum_def)],
                     [op |-> "func", name |-> "name",
                      minus |-> IF enum_def.vals[1].value # 0
                                THEN enum_def.vals[1].name ELSE ""],
                     Tok("endfunc") >>
             ELSE <<>>)
         \o << Tok("endenum") >>

\* file_name_: the name of the one file.
FileName == "schema"

-----------------------------------------------------------------------------
(* Layout Emitter.                                                         *)

RECURSIVE GenStructArgs(_, _, _)
\* GenStructArgs: the parameters of create<Record>, one per leaf field in
\* declaration order; the name of a leaf of a nested record is prefixed
\* with the names of the fields it is nested in.
GenStructArgs(defs, struct_def, nameprefix) ==
    Concat([i \in 1..Len(struct_def.fields) |->
        LET field == struct_def.fields[i] IN
        IF IsStruct(defs, field.type)
        THEN GenStructArgs(defs, StructNamed(defs, field.type.struct_def),
                           nameprefix \o << field.name >>)
        ELSE << [name |-> nameprefix \o << field.name >>,
                 type |-> GenTypeBasic(field.type, TRUE)] >>])

\* A walk from the first field to the last.
WalkOrderForward(n) == [k \in 1..n |-> k]

\* The loop of GenStructBody, `for (it = fields.vec.rbegin(); it !=
\* fields.vec.rend(); ++it)`: the k-th turn visits field n + 1 - k.
WalkOrder(n) == [k \in 1..n |-> n + 1 - k]

\* A reserve call for the outermost record only.
StructPrepOutermostOnly(struct_def, nameprefix) ==
    IF nameprefix = <<>>
    THEN << [op |-> "prep", size |-> struct_def.minalign,
             additionalBytes |-> struct_def.bytesize] >>
    ELSE <<>>

\* The head of GenStructBody: builder.prep(size: minalign,
\* additionalBytes: bytesize), emitted on every entry, also on the entry
\* for a nested record.
StructPrep(struct_def, nameprefix) ==
    << [op |-> "prep", size |-> struct_def.minalign,
        additionalBytes |-> struct_def.bytesize] >>

\* `if (field.padding) { builder.pad(size: padding) }`
FieldPad(field) ==
    IF field.padding # 0 THEN << [op |-> "pad", size |-> field.padding] >>
    ELSE <<>>

\* The pad statement after the statements that write the field.
FieldStatementsPadLast(pad, writes) == writes \o pad

\* One turn of the loop of GenStructBody: the pad statement, then the
\* statements that write the field.
FieldStatements(pad, writes) == pad \o writes

RECURSIVE GenStructBody(_, _, _)
\* GenStructBody: the statements of create<Record> for a fixed record.
GenStructBody(defs, struct_def, nameprefix) ==
    LET n == Len(struct_def.fields) IN
    StructPrep(struct_def, nameprefix) \o
    Concat([k \in 1..n |->
        LET field == struct_def.fields[WalkOrder(n)[k]] IN
        FieldStatements(
            FieldPad(field),
            IF IsStruct(defs, field.type)
            THEN GenStructBody(defs, StructNamed(defs, field.type.struct_def),
                               nameprefix \o << field.name >>)
            ELSE << [op |-> "put", method |-> GenMethod(defs, field.type),
                     arg |-> nameprefix \o << field.name >>,
                     rawValue |-> IsEnum(field.type)] >>)])

\* GenStruct, `if (struct_def.fixed)`: the struct constructor function.
GenCreateStruct(defs, struct_def) ==
    << [op |-> "func", name |-> "create",
        params |-> GenStructArgs(defs, struct_def, <<>>)] >>
    \o GenStructBody(defs, struct_def, <<>>)
    \o << Tok("returnOffset"), Tok("endfunc") >>

-----------------------------------------------------------------------------
(* Accessors of a fixed record.                                            *)

\* GenStruct, the accessor of one field of a fixed record: a scalar is read
\* at __p.bb_pos + offset, a nested record is an accessor object assigned
\* to __p.bb_pos + offset.
GenFixedAccessor(defs, struct_def, field) ==
    IF IsScalar(field.type.base_type)
    THEN << [op |-> "accessor", name |-> field.name, how |-> "scalar",
             getter |-> GenScalarGetter(field.type), at |-> field.offset] >>
    ELSE << [op |-> "accessor", name |-> field.name, how |-> "struct",
             obj |-> field.type.struct_def, at |-> field.offset] >>

-----------------------------------------------------------------------------
(* Table Emitter: accessors.                                               *)

\* GenStruct, default_cast, the text in front of the default of a scalar or
\* of an element of a vector of scalars: "(", with the destination type in
\* front of it except for an enum field.
DefaultCast(type) ==
    IF (IsScalar(type.base_type)
           \/ (type.base_type = "vector" /\ IsScalar(type.element)))
          /\ (type.enum_def = "" \/ type.base_type = "vector")
    THEN GenTypeNameDest(type) \o "(" ELSE "("

\* GenStruct, optional: "?" behind the declared type of the accessor of a
\* struct, a union and a vector of structs of a table.
Optional(struct_def, type) ==
    IF ~struct_def.fixed
          /\ (type.base_type \in {"struct", "union"}
                 \/ (type.base_type = "vector" /\ type.element = "struct"))
    THEN "?" ELSE ""

\* GenStruct, conditional_cast: the declared result of the element accessor
\* of a vector.
ConditionalCast(struct_def, type) ==
    IF Optional(struct_def, type) = "?" THEN GenTypeNameDest(type) \o "?"
    ELSE ""

\* An else branch that takes no notice of `required`.
StringAbsentNeverFatal(field) == [ret |-> "nil"]

\* GenStruct, the else branch of the accessor of a string field.
StringAbsent(field) ==
    IF field.required THEN [ret |-> "fatalError"] ELSE [ret |-> "nil"]

\* GenStruct, the else branch of the element accessor of a vector field.
VectorAbsent(type) ==
    IF type.element = "bool" THEN [ret |-> "literal", lit |-> BoolLit(FALSE)]
    ELSE IF IsScalar(type.element)
    THEN [ret |-> "literal", cast |-> DefaultCast(type),
          lit |-> RawLit(<< 48 >>), close |-> ""]
    ELSE [ret |-> "nil"]

\* GenStruct, the accessor of one field of a table: `let o =
\* __p.__offset(<voffset>); if o != 0 { <read at o + __p.bb_pos> } else
\* { <absent> }`, and for a vector the length accessor after it.
GenTableAccessor(defs, edefs, struct_def, field) ==
    LET type == field.type IN
    IF IsScalar(type.base_type)
    THEN << [op |-> "accessor", name |-> field.name, voffset |-> field.offset,
             how |-> "scalar", getter |-> GenScalarGetter(type),
             returns |-> GenTypeNameDest(type) \o Optional(struct_def, type),
             cast |-> DestinationCast(type), mask |-> DestinationMask(type),
             absent |-> [ret |-> "literal", cast |-> DefaultCast(type),
                         lit |-> GenDefaultValue(edefs, field, TRUE),
                         close |-> ")"]] >>
    ELSE CASE type.base_type = "struct" ->
                << [op |-> "accessor", name |-> field.name,
                    voffset |-> field.offset, how |-> "struct",
                    returns |-> GenTypeNameDest(type)
                                  \o Optional(struct_def, type),
                    obj |-> GenTypeGet(type),
                    indirect |-> ~StructNamed(defs, type.struct_def).fixed,
                    absent |-> [ret |-> "nil"]] >>
           [] type.base_type = "string" ->
                << [op |-> "accessor", name |-> field.name,
                    voffset |-> field.offset, how |-> "string",
                    returns |-> GenTypeNameDest(type)
                                  \o Optional(struct_def, type),
                    absent |-> StringAbsent(field)] >>
           [] type.base_type = "vector" ->
                << [op |-> "accessor", name |-> field.name,
                    voffset |-> field.offset, how |-> "vector",
                    returns |-> ConditionalCast(struct_def, type),
                    element |-> type.element,
                    stride |-> InlineSize(defs, VectorType(type)),
                    cast |-> DestinationCast(type),
                    mask |-> DestinationMask(type),
                    absent |-> VectorAbsent(type)],
                   [op |-> "lengthAccessor", name |-> field.name,
                    voffset |-> field.offset,
                    absent |-> [ret |-> "literal", lit |-> RawLit(<< 48 >>)]] >>
           [] type.base_type = "union" ->
                << [op |-> "accessor", name |-> field.name,
                    voffset |-> field.offset, how |-> "union",
                    returns |-> "TTable?",
                    absent |-> [ret |-> "nil"]] >>
           [] OTHER ->
                << [op |-> "accessor", name |-> field.name,
                    voffset |-> field.offset, how |-> "assert0",
                    returns |-> GenTypeNameDest(type)
                                  \o Optional(struct_def, type)] >>

-----------------------------------------------------------------------------
(* Table Emitter: construction routines.                                   *)

OffsetLit(type) == [lit |-> "offset", type |-> type]

\* GenDefaultValueBasic(value): the default of a create<Record> parameter.
GenDefaultValueBasic(edefs, field) ==
    IF ~IsScalar(field.type.base_type)
    THEN CASE field.type.base_type = "string" -> OffsetLit("StringOffset")
           [] field.type.base_type = "struct" ->
                OffsetLit("Offset<" \o field.type.struct_def \o ">")
           [] field.type.base_type = "vector" -> OffsetLit("VectorOffset")
           [] OTHER -> RawLit(<< 48 >>)
    ELSE GenDefaultValue(edefs, field, TRUE)

\* GenStruct, has_no_struct_fields: no non-deprecated field is a fixed
\* record stored inline.
HasNoStructFields(defs, struct_def) ==
    \A i \in 1..Len(struct_def.fields) :
        struct_def.fields[i].deprecated
            \/ ~IsStruct(defs, struct_def.fields[i].type)

\* GenStruct, num_fields: the non-deprecated fields that are no fixed record.
NumFields(defs, struct_def) ==
    Cardinality({i \in 1..Len(struct_def.fields) :
                    /\ ~struct_def.fields[i].deprecated
                    /\ ~IsStruct(defs, struct_def.fields[i].type)})

\* A condition that looks at the struct fields alone.
EmitsCreateWhateverTheCount(has_no_struct_fields, num_fields) ==
    has_no_struct_fields

\* GenStruct, the condition under which create<Record> is emitted for a
\* table: `has_no_struct_fields && num_fields`.
EmitsCreate(has_no_struct_fields, num_fields) ==
    has_no_struct_fields /\ num_fields # 0

\* The name of the parameter that carries a field: the field's name, with
\* Offset behind it unless the field is a scalar.
ArgName(field) ==
    IF IsScalar(field.type.base_type) THEN field.name
    ELSE field.name \o "Offset"

\* Passes that begin at the size of an int.
CreatePassesFromInt(struct_def) ==
    IF struct_def.sortbysize THEN << 4, 2, 1 >> ELSE << 1 >>

\* The passes of create<Record> over the fields: by size 8, 4, 2, 1 when
\* sortbysize is set, one pass otherwise.
CreatePasses(struct_def) ==
    IF struct_def.sortbysize THEN << 8, 4, 2, 1 >> ELSE << 1 >>

\* A walk over the fields from the first declared to the last.
CreateWalkForward(n) == [k \in 1..n |-> k]

\* GenStruct, the walk of one pass over the n fields: fields.vec.rbegin()
\* to rend(), from the last declared to the first.
CreateWalk(n) == [k \in 1..n |-> n + 1 - k]

\* GenStruct, the add calls of create<Record>: in each pass the fields are
\* walked from the last declared to the first.
CreateAdds(struct_def) ==
    LET passes == CreatePasses(struct_def)
        n      == Len(struct_def.fields)
    IN  Concat([p \in 1..Len(passes) |->
          Concat([k \in 1..n |->
            LET field == struct_def.fields[CreateWalk(n)[k]] IN
            IF ~field.deprecated
                  /\ (~struct_def.sortbysize
                         \/ passes[p] = SizeOf(field.type.base_type))
            THEN << [op |-> "callAdd", name |-> "add" \o field.name,
                     arg |-> ArgName(field)] >>
            ELSE <<>>])])

\* A variant of the count below that leaves the deprecated fields out.
StartCountOfLive(struct_def) ==
    Cardinality({k \in 1..Len(struct_def.fields) :
                    ~struct_def.fields[k].deprecated})

\* GenStruct, the count start<Record> and create<Record> hand to
\* startObject: struct_def.fields.vec.size().
StartCount(struct_def) == Len(struct_def.fields)

\* GenStruct, create<Record> of a table.
GenCreateTable(defs, edefs, struct_def) ==
    IF ~EmitsCreate(HasNoStructFields(defs, struct_def),
                    NumFields(defs, struct_def))
    THEN <<>>
    ELSE LET live == SelectSeq(struct_def.fields, LAMBDA f : ~f.deprecated)
         IN  << [op |-> "func", name |-> "create",
                 params |-> [i \in 1..Len(live) |->
                     [name |-> ArgName(live[i]),
                      type |-> GenTypeBasic(live[i].type, TRUE),
                      default |-> GenDefaultValueBasic(edefs, live[i])]]],
                [op |-> "startObject",
                 numFields |-> StartCount(struct_def)] >>
             \o CreateAdds(struct_def)
             \o << Tok("callEnd"), Tok("endfunc") >>

\* GenStruct, start<Record>.
GenStart(struct_def) ==
    << [op |-> "func", name |-> "start"],
       [op |-> "startObject", numFields |-> StartCount(struct_def)],
       Tok("endfunc") >>

\* GenStruct, what add<Field> passes on of its argument.
PassedArg(field) ==
    IF ~IsScalar(field.type.base_type) /\ field.type.base_type # "union"
    THEN [name |-> ArgName(field), how |-> ".value"]
    ELSE IF field.type.enum_def # ""
    THEN IF IsScalar(field.type.base_type)
         THEN [name |-> ArgName(field), how |-> ".rawValue"]
         ELSE [name |-> ArgName(field), how |-> "Int()"]
    ELSE [name |-> ArgName(field), how |-> ""]

\* GenStruct, the vector helpers behind add<Field> of a vector field.
GenVectorHelpers(defs, field) ==
    LET vector_type == VectorType(field.type)
        startVector == [op |-> "startVector",
                        elemSize |-> InlineSize(defs, vector_type),
                        alignment |-> InlineAlignment(defs, vector_type)]
    IN  (IF ~IsStruct(defs, vector_type)
         THEN << [op |-> "func",
                  name |-> "create" \o field.name \o "Vector"],
                 startVector,
                 [op |-> "addElements",
                  method |-> GenMethod(defs, vector_type),
                  value |-> vector_type.base_type \in {"struct", "string"}],
                 Tok("endVector"), Tok("endfunc") >>
         ELSE <<>>)
        \o << [op |-> "func", name |-> "start" \o field.name \o "Vector"],
               startVector, Tok("endfunc") >>

\* GenStruct, add<Field> of the field declared at position i (from 1):
\* the slot is the position counted from 0, deprecated fields included.
\* A variant of the index below that counts only the fields that get an
\* add<Field>.
AddSlotIndexAmongLive(struct_def, i) ==
    Cardinality({k \in 1..(i - 1) : ~struct_def.fields[k].deprecated})

\* GenStruct, the slot an add<Field> names: `it -
\* struct_def.fields.vec.begin()`, the 0-based position of the field among
\* all fields of the record.
AddSlotIndex(struct_def, i) == i - 1

GenAdd(defs, edefs, struct_def, i) ==
    LET field == struct_def.fields[i] IN
    IF field.deprecated THEN <<>>
    ELSE << [op |-> "func", name |-> "add" \o field.name,
             params |-> << [name |-> ArgName(field),
                            type |-> GenTypeBasic(field.type, TRUE)] >>],
            [op |-> "addSlot", method |-> GenMethod(defs, field.type),
             slot |-> AddSlotIndex(struct_def, i), arg |-> PassedArg(field),
             default |-> GenDefaultValue(edefs, field, FALSE)],
            Tok("endfunc") >>
         \o (IF field.type.base_type = "vector"
              THEN GenVectorHelpers(defs, field) ELSE <<>>)

\* A check for every field marked required, deprecated or not.
RequiredCheckedThoughDeprecated(field) == field.required

\* GenStruct, the fields end<Record> checks.
RequiredChecked(field) == ~field.deprecated /\ field.required

\* GenStruct, end<Record>.
GenEnd(struct_def) ==
    << [op |-> "func", name |-> "end"], Tok("endObject") >>
    \o Concat([i \in 1..Len(struct_def.fields) |->
          IF RequiredChecked(struct_def.fields[i])
          THEN << [op |-> "required",
                   voffset |-> struct_def.fields[i].offset,
                   name |-> struct_def.fields[i].name] >>
          ELSE <<>>])
    \o << Tok("returnOffset"), Tok("endfunc") >>

\* GenStruct, the construction routines of a table.
GenTableBuilder(defs, edefs, struct_def) ==
    Concat(<< GenCreateTable(defs, edefs, struct_def),
              GenStart(struct_def),
              Concat([i \in 1..Len(struct_def.fields) |->
                        GenAdd(defs, edefs, struct_def, i)]),
              GenEnd(struct_def) >>)

-----------------------------------------------------------------------------
(* Vector Key-Lookup Emitter.                                              *)

\* GenOffsetGetter: Table.__offset(<key_field offset>, ...).
GenOffsetGetter(key_field) == key_field.offset

\* GenKeyGetter: the three-way comparison of the sort closure.  For a string
\* key the text is one expression, `Table.compareStrings(..)`; for any other
\* key it is two declarations and `return val_1 > val_2 ? 1 : val_1 < val_2
\* ? -1 : 0;`, a statement that ends the closure.
GenKeyGetter(key_field) ==
    IF key_field.type.base_type = "string"
    THEN [op |-> "sortcomp", how |-> "compareStrings",
          voffset |-> GenOffsetGetter(key_field), form |-> "expression"]
    ELSE [op |-> "sortcomp", how |-> "scalar",
          voffset |-> GenOffsetGetter(key_field), form |-> "return"]

\* GenLookupKeyGetter: the statements of one probe.  tableOffset is read
\* at vectorLocation + 4 * (start + middle); comp is the three-way
\* comparison of the probed record's key with the query.
GenLookupKeyGetter(key_field) ==
    << [op |-> "tableOffset"] >> \o
    ( IF key_field.type.base_type = "string"
      THEN << [op |-> "comp", how |-> "compareStrings",
               voffset |-> GenOffsetGetter(key_field)] >>
      ELSE << [op |-> "val", voffset |-> GenOffsetGetter(key_field)],
              [op |-> "comp", how |-> "scalar",
               voffset |-> GenOffsetGetter(key_field)] >> )

\* The statements of lookupByKey after its signature, when all are emitted.
LookupBody(key_field) ==
    << Tok("cursorInit"), Tok("while"), Tok("middle") >>
    \o GenLookupKeyGetter(key_field)
    \o << Tok("branch"), Tok("endwhile"), Tok("returnNil"), Tok("endfunc") >>

\* GenStruct, the block under `if (struct_def.has_key)`.  The sort routine
\* is emitted whole.  Of lookupByKey the signature is emitted, and then
\* everything from `let byteKey` down to the closing brace of the routine
\* stands inside `if (key_field->value.type.base_type == BASE_TYPE_STRING)`,
\* whose closing brace is the one after the last `code +=` of the block.
GenKeyRoutines(struct_def) ==
    IF ~struct_def.has_key THEN <<>>
    ELSE
      LET key_field == struct_def.fields[KeyFieldIndex(struct_def)] IN
        << [op |-> "func", name |-> "createMySortedVectorOfTables"],
           [op |-> "sort", comp |-> GenKeyGetter(key_field), then |-> "< 0"],
           Tok("createVectorOfTables"),
           Tok("endfunc"),
           [op |-> "func", name |-> "lookupByKey"] >>
        \o ( IF key_field.type.base_type = "string"
             THEN << Tok("byteKey") >> \o LookupBody(key_field)
             ELSE <<>> )

-----------------------------------------------------------------------------
(* GenStruct.                                                              *)

\* GenStruct, the get<Field>Bytes accessor of a string and of a vector of
\* scalars.
GenBytesAccessor(field) ==
    IF (field.type.base_type = "vector" /\ IsScalar(field.type.element))
          \/ field.type.base_type = "string"
    THEN << [op |-> "bytesAccessor", name |-> field.name,
             voffset |-> field.offset] >>
    ELSE <<>>

\* GenSetter(type): the put routine of a scalar, with the name of the basic
\* type behind `put` except for a bool; no text for a type that is no
\* scalar.  (The comparison of the basic type with "byte" never holds: the
\* basic types carry their Swift names.)
GenSetter(type) ==
    IF IsScalar(type.base_type)
    THEN [fn |-> "__p.bb.put",
          type |-> IF type.base_type = "bool" THEN ""
                   ELSE GenTypeBasic(type, FALSE)]
    ELSE [fn |-> "", type |-> ""]

\* A variant of the condition below that ignores the mutable_buffer option.
EmitsMutatorWhateverTheOption(options, type) ==
    IsScalar(type.base_type)
       \/ (type.base_type = "vector" /\ IsScalar(type.element))

\* GenStruct, the two conditions around the text of a mutator: the
\* mutable_buffer option, and a scalar field or a vector of scalars.
EmitsMutator(options, type) ==
    /\ options.mutable_buffer
    /\ IsScalar(type.base_type)
          \/ (type.base_type = "vector" /\ IsScalar(type.element))

\* A variant of the branch below that emits the unguarded body for tables
\* too.
MutatorNeverGuarded(struct_def) == FALSE

\* GenStruct, the branch on struct_def.fixed around the body of a mutator:
\* the mutator of a table field looks at the slot before it writes.
MutatorGuarded(struct_def) == ~struct_def.fixed

\* GenStruct, setter_index: where a mutator writes.  __p.__vector(o) + j *
\* <element size> for the element j of a vector, __p.bb_pos + <offset> for
\* a field of a fixed record, o + __p.bb_pos for a field of a table.
SetterIndex(defs, struct_def, field) ==
    IF field.type.base_type = "vector"
    THEN [base |-> "__p.__vector(o)", plus |-> 0,
          stride |-> InlineSize(defs, VectorType(field.type))]
    ELSE IF struct_def.fixed
    THEN [base |-> "__p.bb_pos", plus |-> field.offset, stride |-> 0]
    ELSE [base |-> "o + __p.bb_pos", plus |-> 0, stride |-> 0]

\* GenStruct, the mutator of one field.  Of a fixed record it returns
\* nothing and calls the setter (guarded |-> FALSE); of a table it returns
\* a Bool: `let o = __p.__offset(<voffset>); if (o != 0) {
\* <setter>(<index>, <value>); return true; } else { return false; }`
\* (guarded |-> TRUE).  A bool is written as (byte)(x ? 1 : 0).
GenMutator(defs, options, struct_def, field) ==
    LET type == field.type
        underlying_type == IF type.base_type = "vector" THEN VectorType(type)
                           ELSE type
    IN  IF EmitsMutator(options, type)
        THEN << [op |-> "mutator", name |-> field.name,
                 returns |-> IF struct_def.fixed THEN "void " ELSE "Bool",
                 params |-> IF type.base_type = "vector"
                            THEN << "j", field.name >> ELSE << field.name >>,
                 guarded |-> MutatorGuarded(struct_def),
                 voffset |-> field.offset,
                 setter |-> GenSetter(underlying_type),
                 index |-> SetterIndex(defs, struct_def, field),
                 value |-> IF underlying_type.base_type = "bool"
                           THEN "(byte)(x ? 1 : 0)" ELSE "x"] >>
        ELSE <<>>

\* GenStruct, the loop over the fields that emits, for each field that is
\* not deprecated, its accessor, its bytes accessor and its mutator.
GenAccessors(defs, edefs, options, struct_def) ==
    Concat([i \in 1..Len(struct_def.fields) |->
        LET field == struct_def.fields[i] IN
        IF field.deprecated THEN <<>>
        ELSE (IF struct_def.fixed
              THEN GenFixedAccessor(defs, struct_def, field)
              ELSE GenTableAccessor(defs, edefs, struct_def, field))
             \o GenBytesAccessor(field)
             \o GenMutator(defs, options, struct_def, field)])

\* GenStruct, the text in front of the accessors: the declaration, the
\* getRootAs routines of a table, __init and __assign.
GenStructHeader(struct_def) ==
    << [op |-> "struct", name |-> struct_def.name,
        base |-> IF struct_def.fixed THEN "Struct" ELSE "Table"] >>
    \o (IF ~struct_def.fixed
        THEN << [op |-> "getRootAs", name |-> struct_def.name] >> ELSE <<>>)
    \o << Tok("__init"), Tok("__assign") >>

GenStruct(defs, edefs, options, struct_def) ==
    IF struct_def.generated THEN <<>>
    ELSE Concat(<< GenStructHeader(struct_def),
                   GenAccessors(defs, edefs, options, struct_def),
                   IF struct_def.fixed THEN GenCreateStruct(defs, struct_def)
                   ELSE GenTableBuilder(defs, edefs, struct_def),
                   GenKeyRoutines(struct_def),
                   << Tok("endstruct") >> >>)

-----------------------------------------------------------------------------
(* What the emitted text is, read back as a program.                       *)

\* Position of the signature of routine `name` in the text, 0 when absent.
FuncAt(toks, name) ==
    LET at == {i \in 1..Len(toks) : toks[i].op = "func" /\ toks[i].name = name}
    IN  IF at = {} THEN 0 ELSE CHOOSE i \in at : \A j \in at : i <= j

\* The statements of routine `name`: what follows its signature up to and
\* including its closing brace, or up to the end of the text when the
\* routine is never closed.
FuncBody(toks, name) ==
    LET f    == FuncAt(toks, name)
        ends == {i \in (f + 1)..Len(toks) : toks[i].op = "endfunc"}
        last == IF ends = {} THEN Len(toks)
                ELSE CHOOSE i \in ends : \A j \in ends : i <= j
    IN  IF f = 0 THEN <<>> ELSE SubSeq(toks, f + 1, last)

HasOp(toks, op) == \E i \in 1..Len(toks) : toks[i].op = op

\* The comparison the emitted probe makes.
CompHow(toks) ==
    LET at == {i \in 1..Len(toks) : toks[i].op = "comp"}
    IN  IF at = {} THEN "none" ELSE toks[CHOOSE i \in at : TRUE].how

-----------------------------------------------------------------------------
(* Runtime of the emitted lookup (FlatBuffers Table helpers).              *)

RECURSIVE Digits(_)
\* The bytes of the decimal text of n.
Digits(n) ==
    IF n < 10 THEN << 48 + n >> ELSE Digits(n \div 10) \o << 48 + (n % 10) >>

RECURSIVE CompareStrings(_, _)
\* Table.compareStrings: byte-wise comparison, the shorter string first
\* when one is a prefix of the other.
CompareStrings(a, b) ==
    IF a = <<>> \/ b = <<>> THEN Len(a) - Len(b)
    ELSE IF Head(a) # Head(b) THEN Head(a) - Head(b)
    ELSE CompareStrings(Tail(a), Tail(b))

\* `val > key ? 1 : val < key ? -1 : 0`
CompareScalars(val, k) == IF val > k THEN 1 ELSE IF val < k THEN -1 ELSE 0

Compare(how, a, b) ==
    IF how = "compareStrings" THEN CompareStrings(a, b) ELSE CompareScalars(a, b)

\* `var middle = span / 2;`
Middle(s) == s \div 2

\* `if (comp > 0) { span = middle; }`
OnGreater(st, sp, middle) == [start |-> st, span |-> middle]

\* A lookup that steps over one record only when the probed key is smaller.
OnLessStepsByOne(st, sp, middle) == [start |-> st + 1, span |-> sp - 1]

\* A branch without `middle += 1`: the probed record stays in the span.
OnLessKeepsProbed(st, sp, middle) == [start |-> st + middle, span |-> sp - middle]

\* `else if (comp < 0) { middle += 1; start += middle; span -= middle; }`
OnLess(st, sp, middle) == [start |-> st + (middle + 1), span |-> sp - (middle + 1)]

-----------------------------------------------------------------------------
(* Runtime of the emitted create<Record> of a fixed record                 *)
(* (FlatBufferBuilder and ByteBuffer).  The buffer grows from high         *)
(* addresses to low: every write puts its bytes in front of `b`.           *)

Zeros(n) == [i \in 1..n |-> 0]

\* builder.prep(size:additionalBytes:): so many zero bytes that, once
\* additionalBytes more are written, the buffer length is a multiple of size.
Prep(b, size, additionalBytes) ==
    Zeros((size - ((Len(b) + additionalBytes) % size)) % size) \o b

\* builder.pad(size:)
Pad(b, n) == Zeros(n) \o b

RECURSIVE LEBytes(_, _)
\* The n bytes of v, least significant first.
LEBytes(v, n) ==
    IF n = 0 THEN <<>> ELSE << v % 256 >> \o LEBytes(v \div 256, n - 1)

RECURSIVE FromLE(_)
FromLE(bytes) ==
    IF bytes = <<>> THEN 0 ELSE Head(bytes) + 256 * FromLE(Tail(bytes))

\* builder.put<Method>(value): the bytes of the value, no alignment.
Put(b, method, v) == LEBytes(v, SizeOf(method)) \o b

\* bb.get<Type>(at: pos): pos is the address counted from the front of b.
GetScalar(b, pos, getter) == FromLE(SubSeq(b, pos + 1, pos + SizeOf(getter.type)))

\* The accessor emitted for field `name` in the text `toks`.
AccessorOf(toks, name) ==
    toks[CHOOSE i \in 1..Len(toks) :
            toks[i].op = "accessor" /\ toks[i].name = name]

CodeNamed(defs, codes, name) ==
    codes[CHOOSE i \in 1..Len(defs) : defs[i].name = name]

RECURSIVE ReadPath(_, _, _, _, _, _)
\* The value the emitted accessors return for the leaf `path` of the record
\* `name` at address pos: the accessor of the first name of the path, and
\* for a nested record the accessors of that record from the position the
\* outer accessor assigns.
ReadPath(defs, codes, b, name, pos, path) ==
    LET acc == AccessorOf(CodeNamed(defs, codes, name), Head(path)) IN
    IF acc.how = "scalar" THEN GetScalar(b, pos + acc.at, acc.getter)
    ELSE ReadPath(defs, codes, b, acc.obj, pos + acc.at, Tail(path))

-----------------------------------------------------------------------------
(* Inputs of the fixed-record runs: the layout the schema compiler         *)
(* computes (Parser::AddField and StructDef::PadLastField).                *)

FieldNames == << "a", "b", "c", "d", "e", "f" >>

TypeOfSym(sym) ==
    IF sym \in ScalarTypes THEN ScalarType(sym)
    ELSE MkType("struct", "none", sym, "")

AlignUp(x, a) == ((x + a - 1) \div a) * a

RECURSIVE OffsetOfField(_, _, _)
\* The offset of the i-th field: the end of the field before it, padded to
\* the alignment of the i-th.
OffsetOfField(defs, types, i) ==
    IF i = 1 THEN 0
    ELSE AlignUp(OffsetOfField(defs, types, i - 1)
                    + InlineSize(defs, types[i - 1]),
                 InlineAlignment(defs, types[i]))

RECURSIVE MaxAlign(_, _)
MaxAlign(defs, types) ==
    IF types = <<>> THEN 1
    ELSE LET a == InlineAlignment(defs, Head(types))
             r == MaxAlign(defs, Tail(types))
         IN  IF a > r THEN a ELSE r

\* The fixed record `name` with fields of the given types, laid out.
FixedStruct(defs, name, syms) ==
    LET types    == [i \in 1..Len(syms) |-> TypeOfSym(syms[i])]
        n        == Len(types)
        minalign == MaxAlign(defs, types)
        off(i)   == OffsetOfField(defs, types, i)
        bytesize == AlignUp(off(n) + InlineSize(defs, types[n]), minalign)
        next(i)  == IF i < n THEN off(i + 1) ELSE bytesize
    IN  MkStruct(name, TRUE,
                 [i \in 1..n |->
                    MkField(FieldNames[i], types[i], off(i),
                            next(i) - off(i) - InlineSize(defs, types[i]),
                            FALSE, FALSE, FALSE, << 48 >>)],
                 minalign, bytesize, FALSE, FALSE)

SeqsUpTo(S, n) == UNION {[1..k -> S] : k \in 1..n}

InnerSyms == {"ubyte", "short"}

OuterSyms == {"int", "Inner", "Mid"}

MidShapes == { << "ubyte", "Inner" >>, << "Inner", "int" >> }

Uses(syms, sym) == \E i \in 1..Len(syms) : syms[i] = sym

\* The k-th argument of create<Record>, a value of `size` bytes: every
\* byte is non-zero and differs from the bytes of the other arguments.
RECURSIVE ArgBytes(_, _, _)
ArgBytes(k, i, size) ==
    IF i > size THEN <<>>
    ELSE << ((8 * k + i) % 120) + 1 >> \o ArgBytes(k, i + 1, size)

ArgValue(k, size) == FromLE(ArgBytes(k, 1, size))

-----------------------------------------------------------------------------
(* Inputs of the lookup runs.                                              *)

\* A table with a key field of the given type at position 0.
KeyedTable(keytype) ==
    MkStruct("Rec", FALSE,
             << MkField("k", keytype, FieldIndexToOffset(0), 0,
                        keytype.base_type = "string", FALSE, TRUE, << 48 >>) >>,
             1, 0, FALSE, TRUE)

\* A table without key.
PlainTable ==
    MkStruct("Rec", FALSE,
             << MkField("k", ScalarType("int"), FieldIndexToOffset(0), 0,
                        FALSE, FALSE, FALSE, << 48 >>) >>,
             1, 0, FALSE, FALSE)

\* Key numbers 1, 3, 5, ...; the queries lie on and between them.
KeyNumbers == {2 * i - 1 : i \in 1..MaxVecLen}

QueryNumbers == 0..(2 * MaxVecLen)

\* A key number as the key field holds it: the number, or its decimal text.
Native(isString, n) == IF isString THEN Digits(n) ELSE n

NativeHow(isString) == IF isString THEN "compareStrings" ELSE "scalar"

RECURSIVE SortedKeys(_, _)
\* The key numbers of S in ascending order of the key field's comparison.
SortedKeys(isString, S) ==
    IF S = {} THEN <<>>
    ELSE LET m == CHOOSE x \in S : \A y \in S \ {x} :
                     Compare(NativeHow(isString),
                             Native(isString, x), Native(isString, y)) < 0
         IN  << Native(isString, m) >> \o SortedKeys(isString, S \ {m})

\* The record type the run exercises: the last one declared.
Target == structs[Len(structs)]

TargetCode == code[Len(structs)]

KeyIsString == Target.fields[1].type.base_type = "string"

\* The vector is sorted ascending by unique key under the key comparison.
IsKeySorted(v, how) ==
    \A i \in 1..(Len(v) - 1) : Compare(how, v[i], v[i + 1]) < 0

-----------------------------------------------------------------------------
(* Runtime of the emitted table routines (FlatBufferBuilder and Table).    *)

\* The slot (from 1) a vtable offset stands for.
SlotOf(voffset) == (voffset - 4) \div 2 + 1

\* FlatBufferBuilder.startObject(numFields): every slot empty.
StartObject(numFields) == [i \in 1..numFields |-> [set |-> FALSE]]

\* FlatBufferBuilder.add<T>(slot, x, d): the slot is written unless x is the
\* default d.
AddSlot(vt, slot, x, d) ==
    IF x # d THEN [vt EXCEPT ![slot + 1] = [set |-> TRUE, value |-> x]]
    ELSE vt

\* FlatBufferBuilder.endObject and required(o, voffset): the state after the
\* statements of end<Record>.
EndObject(toks, vt) ==
    LET body == FuncBody(toks, "end") IN
    IF \E i \in 1..Len(body) :
          body[i].op = "required" /\ ~vt[SlotOf(body[i].voffset)].set
    THEN "fatal" ELSE "ended"

\* Table.__offset(voffset) != 0
Present(vt, voffset) ==
    SlotOf(voffset) <= Len(vt) /\ vt[SlotOf(voffset)].set

\* What an emitted accessor returns on the table vt.
ReadAccessor(acc, vt) ==
    IF Present(vt, acc.voffset)
    THEN [ret |-> "stored", value |-> vt[SlotOf(acc.voffset)].value]
    ELSE acc.absent

LengthAccessorOf(toks, name) ==
    toks[CHOOSE i \in 1..Len(toks) :
            toks[i].op = "lengthAccessor" /\ toks[i].name = name]

RECURSIVE RunAdds(_, _, _, _)
\* The add calls of create<Record>, one after the other: each runs the
\* statement of the add<Field> it names on the value of its parameter.
RunAdds(toks, calls, vt, values) ==
    IF calls = <<>> THEN vt
    ELSE LET stmt == FuncBody(toks, Head(calls).name)[1]
         IN  RunAdds(toks, Tail(calls),
                     AddSlot(vt, stmt.slot, values[Head(calls).arg],
                             stmt.default),
                     values)

-----------------------------------------------------------------------------
(* The runtime: a serialized record in a buffer, and the mutators.         *)

\* A byte of a serialized record nobody has mutated.
Stored == 7

\* What an emitted routine returned; Nil for a routine that returns nothing.
Returned(v) == [nil |-> FALSE, value |-> v]

IsVectorOfScalars(type) ==
    type.base_type = "vector" /\ IsScalar(type.element)

\* The bytes of the vector of field i of a table, behind the table: the
\* length and MaxElems elements.
VectorBlock(struct_def, filled, i) ==
    LET type == struct_def.fields[i].type IN
    IF i \in filled /\ IsVectorOfScalars(type)
    THEN LEBytes(MaxElems, 4)
         \o [k \in 1..(MaxElems * SizeOf(type.element)) |-> Stored]
    ELSE <<>>

\* Where the inline part of a table ends, and where the vector of field i
\* starts, both counted from the start of the table.  The table starts with
\* the 4 bytes of the offset of its vtable.
InlineEnd(defs, struct_def, filled) ==
    4 + Len(Concat([k \in 1..Len(struct_def.fields) |->
                      IF k \in filled
                      THEN Zeros(InlineSize(defs, struct_def.fields[k].type))
                      ELSE <<>>]))

BlockOffsetIn(defs, struct_def, filled, i) ==
    InlineEnd(defs, struct_def, filled)
      + Len(Concat([k \in 1..(i - 1) |-> VectorBlock(struct_def, filled, k)]))

\* Table.__offset(voffset) on a table with the fields `filled`: 0 for an
\* absent field, else the offset of the field from the start of the table.
FieldOffsetIn(defs, struct_def, filled, i) ==
    IF i \notin filled THEN 0
    ELSE 4 + Len(Concat([k \in 1..(i - 1) |->
                     IF k \in filled
                     THEN Zeros(InlineSize(defs, struct_def.fields[k].type))
                     ELSE <<>>]))

\* The bytes of field i inside the table: a vector of scalars is the
\* distance from the field to its vector, anything else is opaque.
InlineField(defs, struct_def, filled, i) ==
    LET type == struct_def.fields[i].type IN
    IF i \notin filled THEN <<>>
    ELSE IF IsVectorOfScalars(type)
    THEN LEBytes(BlockOffsetIn(defs, struct_def, filled, i)
                   - FieldOffsetIn(defs, struct_def, filled, i), 4)
    ELSE [k \in 1..InlineSize(defs, type) |-> Stored]

\* A serialized table with the fields `filled`, from its start on.
TableBytes(defs, struct_def, filled) ==
    << Stored, Stored, Stored, Stored >>
    \o Concat([i \in 1..Len(struct_def.fields) |->
                  InlineField(defs, struct_def, filled, i)])
    \o Concat([i \in 1..Len(struct_def.fields) |->
                  VectorBlock(struct_def, filled, i)])

\* ByteBuffer.put<T>(at: pos, value): the n bytes of v over those at pos.
PutAt(b, pos, v, n) ==
    [i \in 1..Len(b) |->
        IF pos < i /\ i <= pos + n THEN LEBytes(v, n)[i - pos] ELSE b[i]]

\* Table.__offset(voffset)
Offset(vt, voffset) ==
    IF SlotOf(voffset) \in 1..Len(vt) THEN vt[SlotOf(voffset)].o ELSE 0

\* Table.__vector(o): the address of the first element of the vector that
\* the field at o refers to.
Vector(b, pos, o) ==
    LET at == o + pos
    IN  at + FromLE(SubSeq(b, at + 1, at + 4)) + 4

\* The bytes a setter writes.
SetterWidth(setter) == IF setter.type = "" THEN 1 ELSE SizeOf(setter.type)

\* The value an emitted mutator hands to its setter for the argument x.
SetterValue(tok, x) ==
    IF tok.value = "(byte)(x ? 1 : 0)" THEN (IF x # 0 THEN 1 ELSE 0) ELSE x

\* The address an emitted mutator hands to its setter.
SetterAddress(tok, b, pos, o, j) ==
    CASE tok.index.base = "__p.__vector(o)" ->
            Vector(b, pos, o) + j * tok.index.stride
      [] tok.index.base = "__p.bb_pos" -> pos + tok.index.plus
      [] OTHER -> o + pos

HasMutator(toks, name) ==
    \E i \in 1..Len(toks) : toks[i].op = "mutator" /\ toks[i].name = name

-----------------------------------------------------------------------------
(* Inputs of the table runs.                                               *)

TableFieldNames == << "p", "q", "r", "s" >>

Color ==
    MkEnum("Color", << [name |-> "Red", value |-> 0],
                       [name |-> "Green", value |-> 1],
                       [name |-> "Blue", value |-> 2] >>)

AnyRec ==
    MkEnum("AnyRec", << [name |-> "NONE", value |-> 0],
                     [name |-> "Rec", value |-> 1] >>)

\* A field as the schema declares it, before it gets its name and slot.
Decl(type, required, deprecated, default) ==
    [type |-> type, required |-> required, deprecated |-> deprecated,
     constant |-> Digits(default)]

\* The declarations the tables are made of.  Only fields that are no
\* scalars can be required (the schema compiler rejects the others), and a
\* field that is no scalar has the constant 0.
FieldPalette ==
    { Decl(ScalarType("int"), FALSE, FALSE, 5),
      Decl(ScalarType("long"), FALSE, FALSE, 0),
      Decl(ScalarType("short"), FALSE, FALSE, 3),
      Decl(ScalarType("bool"), FALSE, FALSE, 1),
      Decl(MkType("byte", "none", "", "Color"), FALSE, FALSE, 1),
      Decl(StringType, FALSE, FALSE, 0),
      Decl(StringType, TRUE, FALSE, 0),
      Decl(StringType, TRUE, TRUE, 0),
      Decl(MkType("struct", "none", "Inner", ""), FALSE, FALSE, 0),
      Decl(MkType("struct", "none", "Inner", ""), FALSE, TRUE, 0),
      Decl(MkType("struct", "none", "Rec", ""), TRUE, FALSE, 0),
      Decl(MkType("union", "none", "", "AnyRec"), FALSE, FALSE, 0),
      Decl(MkType("vector", "struct", "Inner", ""), FALSE, FALSE, 0),
      Decl(MkType("vector", "bool", "", ""), FALSE, FALSE, 0),
      Decl(MkType("vector", "int", "", ""), FALSE, FALSE, 0) }

\* The declarations the tables handed to the mutators are made of.
MutatePalette ==
    { Decl(ScalarType("int"), FALSE, FALSE, 5),
      Decl(ScalarType("int"), FALSE, TRUE, 5),
      Decl(ScalarType("bool"), FALSE, FALSE, 1),
      Decl(MkType("byte", "none", "", "Color"), FALSE, FALSE, 1),
      Decl(StringType, FALSE, FALSE, 0),
      Decl(MkType("struct", "none", "Inner", ""), FALSE, FALSE, 0),
      Decl(MkType("union", "none", "", "AnyRec"), FALSE, FALSE, 0),
      Decl(MkType("vector", "struct", "Inner", ""), FALSE, FALSE, 0),
      Decl(MkType("vector", "string", "", ""), FALSE, FALSE, 0),
      Decl(MkType("vector", "short", "", ""), FALSE, FALSE, 0) }

\* The fields of the fixed records handed to the mutators.
MutateSyms == {"bool", "short", "Inner"}

\* The values a caller passes to a mutator.
MutateValues == {1, 300}

\* The table with the declarations decls, in this order.
TableOf(decls, sortbysize) ==
    MkStruct("T", FALSE,
             [i \in 1..Len(decls) |->
                 MkField(TableFieldNames[i], decls[i].type,
                         FieldIndexToOffset(i - 1), 0, decls[i].required,
                         decls[i].deprecated, FALSE, decls[i].constant)],
             1, 0, sortbysize, FALSE)

\* The values a caller passes to add<Field>: for a scalar its default and
\* another value, for the others the offset of an object built before
\* (never 0).
AddValues(field) ==
    IF field.type.base_type = "bool" THEN << BoolLit(FALSE), BoolLit(TRUE) >>
    ELSE IF IsScalar(field.type.base_type)
    THEN << RawLit(field.constant), RawLit(Digits(2)) >>
    ELSE << RawLit(Digits(9)), RawLit(Digits(9)) >>

-----------------------------------------------------------------------------
(* Inputs of the enum runs.                                                *)

EnumNames == << "A", "B", "C", "D", "E" >>

\* The enum E with the values vals, declared in this order.
EnumOf(vals) ==
    MkEnum("E", [i \in 1..Len(vals) |->
                    [name |-> EnumNames[i], value |-> vals[i]]])

\* Values in any order of declaration, no value twice.
EnumShapes ==
    {vals \in SeqsUpTo(0..MaxEnumValue, MaxEnumVals) :
        \A i, j \in 1..Len(vals) : i # j => vals[i] # vals[j]}

\* A dense and a sparse enum.
NamedShapes == { << 0, 1, 2, 3, 4 >>, << 0, 100 >> }

\* The defaults of the field of type E.
DefaultValues == {0, 2, 9}

-----------------------------------------------------------------------------
(* Actions.                                                                *)

\* A variant of the declaration below in which the text of the run before
\* is still there.
OneFileCodeKept(stale) == stale

\* generate(): `std::string one_file_code;`, empty whenever generate() is
\* entered, whatever a run before left.
OneFileCodeAtEntry(stale) == <<>>

\* A variant of the statement below that puts the fragment in front.
PrependCode(text, fragment) == fragment \o text

\* generate(): `one_file_code += enumcode;` and `one_file_code += declcode;`
AppendCode(text, fragment) == text \o fragment

\* A generate() that does not look at what SaveType returns.
SaveTypeUnchecked(defname, classcode, needs_includes, next) ==
    IF classcode = <<>>
    THEN units' = units /\ pc' = next
    ELSE \E saved \in BOOLEAN :
            /\ units' = Append(units, [name |-> defname,
                                       needs_includes |-> needs_includes,
                                       text |-> classcode,
                                       saved |-> saved])
            /\ pc' = next

\* SaveType(defname, ns, classcode, needs_includes): nothing is written for
\* an empty text; otherwise the file goes to SaveFile, which may fail, and
\* generate() returns false then.  `next` is where generate() goes on.
SaveType(defname, classcode, needs_includes, next) ==
    IF classcode = <<>>
    THEN units' = units /\ pc' = next
    ELSE \E saved \in BOOLEAN :
            /\ units' = Append(units, [name |-> defname,
                                       needs_includes |-> needs_includes,
                                       text |-> classcode,
                                       saved |-> saved])
            /\ pc' = IF saved THEN next ELSE "failed"

\* generate(): one turn of the loop over parser_.enums_.vec.  GenEnum does
\* not come back from an enum whose name table never ends.
GenerateEnum ==
    /\ pc = "init"
    /\ eit <= Len(enums)
    /\ IF NamesNeverEnd(enums[eit])
       THEN /\ pc' = "exhausted"
            /\ UNCHANGED <<eit, ecode, one_file_code, units>>
       ELSE LET enumcode == GenEnum(enums[eit]) IN
            /\ ecode' = [ecode EXCEPT ![eit] = enumcode]
            /\ eit' = eit + 1
            /\ IF opts.one_file
               THEN /\ one_file_code' = AppendCode(one_file_code, enumcode)
                    /\ UNCHANGED <<units, pc>>
               ELSE /\ SaveType(enums[eit].name, enumcode, FALSE, "init")
                    /\ UNCHANGED one_file_code
    /\ UNCHANGED <<structs, enums, opts, it, code, prev, runs,
                   lookupVars, buildVars, tableVars>>

\* GenStruct, the `default: assert(0);` of the switch over the types that
\* are no scalars: reached for a field of a record that is not marked
\* generated, when the field is not deprecated and its type is none of
\* struct, string, vector and union.
ReachesAssert(struct_def) ==
    /\ ~struct_def.generated
    /\ \E i \in 1..Len(struct_def.fields) :
          /\ ~struct_def.fields[i].deprecated
          /\ ~IsScalar(struct_def.fields[i].type.base_type)
          /\ struct_def.fields[i].type.base_type
                \notin {"struct", "string", "vector", "union"}

\* generate(): one turn of the loop over parser_.structs_.vec, handing the
\* next struct_def to GenStruct.  Where GenStruct reaches assert(0), a
\* build with assertions ends the program there, and a build without them
\* (NDEBUG) goes on behind the switch.
Generate ==
    /\ pc = "init"
    /\ eit > Len(enums)
    /\ it <= Len(structs)
    /\ \E ndebug \in (IF ReachesAssert(structs[it]) THEN BOOLEAN ELSE {TRUE}) :
         IF ~ndebug
         THEN /\ pc' = "aborted"
              /\ UNCHANGED <<code, it, one_file_code, units>>
         ELSE
         LET declcode == GenStruct(structs, enums, opts, structs[it]) IN
         /\ code' = [code EXCEPT ![it] = declcode]
         /\ it' = it + 1
         /\ IF opts.one_file
            THEN /\ one_file_code' = AppendCode(one_file_code, declcode)
                 /\ UNCHANGED <<units, pc>>
            ELSE /\ SaveType(structs[it].name, declcode, TRUE, "init")
                 /\ UNCHANGED one_file_code
    /\ UNCHANGED <<structs, enums, opts, eit, ecode, prev, runs,
                   lookupVars, buildVars, tableVars>>

\* generate(): after the loops, the one file when one_file is set, and the
\* return.
GenerateReturn ==
    /\ pc = "init"
    /\ eit > Len(enums)
    /\ it > Len(structs)
    /\ IF opts.one_file
       THEN SaveType(FileName, one_file_code, TRUE, "generated")
       ELSE units' = units /\ pc' = "generated"
    /\ UNCHANGED <<structs, enums, opts, it, eit, code, ecode,
                   one_file_code, prev, runs,
                   lookupVars, buildVars, tableVars>>

\* GenerateSwift is called again on the same parser: a new generator, and
\* generate() from its first statement.
GenerateAgain ==
    /\ pc = "generated"
    /\ runs < MaxRuns
    /\ prev' = Append(prev, units)
    /\ runs' = runs + 1
    /\ units' = <<>>
    /\ one_file_code' = OneFileCodeAtEntry(one_file_code)
    /\ it' = 1 /\ eit' = 1
    /\ code' = [i \in 1..Len(code) |-> <<>>]
    /\ ecode' = [i \in 1..Len(ecode) |-> <<>>]
    /\ pc' = "init"
    /\ UNCHANGED <<structs, enums, opts, lookupVars, buildVars, tableVars>>

\* lookupByKey is called: the statements before the loop.  A routine of
\* which only the signature was emitted has no statement to run.
LookupCall ==
    /\ pc = "generated"
    /\ FuncAt(TargetCode, "lookupByKey") # 0
    /\ IF HasOp(FuncBody(TargetCode, "lookupByKey"), "cursorInit")
       THEN /\ span' = Len(vec)
            /\ start' = 0
            /\ pc' = "loop"
       ELSE /\ pc' = "malformed"
            /\ UNCHANGED <<start, span>>
    /\ UNCHANGED <<genVars, vec, key, probes, result, buildVars, tableVars>>

\* One iteration of `while (span != 0)`.
LookupStep ==
    /\ pc = "loop"
    /\ span # 0
    /\ LET middle == Middle(span)
           comp   == Compare(CompHow(FuncBody(TargetCode, "lookupByKey")),
                             vec[start + middle + 1], key)
       IN  /\ probes' = probes + 1
           /\ IF comp > 0
              THEN /\ start' = OnGreater(start, span, middle).start
                   /\ span' = OnGreater(start, span, middle).span
                   /\ UNCHANGED <<pc, result>>
              ELSE IF comp < 0
              THEN /\ start' = OnLess(start, span, middle).start
                   /\ span' = OnLess(start, span, middle).span
                   /\ UNCHANGED <<pc, result>>
              ELSE /\ result' = Found(start + middle)
                   /\ pc' = "done"
                   /\ UNCHANGED <<start, span>>
    /\ UNCHANGED <<genVars, vec, key, buildVars, tableVars>>

\* `return nil;` after the loop.
LookupExit ==
    /\ pc = "loop"
    /\ span = 0
    /\ result' = Nil
    /\ pc' = "done"
    /\ UNCHANGED <<genVars, vec, key, start, span, probes, buildVars, tableVars>>

\* create<Record> of a fixed record is called with one value per parameter.
CreateStructCall ==
    /\ pc = "generated"
    /\ Target.fixed
    /\ FuncAt(TargetCode, "create") # 0
    /\ LET f      == FuncAt(TargetCode, "create")
           params == TargetCode[f].params
       IN  /\ ip' = f + 1
           /\ args' = [p \in {params[k].name : k \in 1..Len(params)} |->
                        LET k == CHOOSE j \in 1..Len(params) : params[j].name = p
                        IN  ArgValue(k, SizeOf(params[k].type))]
    /\ pc' = "building"
    /\ UNCHANGED <<genVars, lookupVars, tableVars, buf, bb_pos>>

\* The next statement of the emitted create<Record> runs.
ExecStatement ==
    /\ pc = "building"
    /\ LET stmt == TargetCode[ip] IN
         CASE stmt.op = "prep" ->
                /\ buf' = Prep(buf, stmt.size, stmt.additionalBytes)
                /\ ip' = ip + 1
                /\ UNCHANGED <<pc, bb_pos>>
           [] stmt.op = "pad" ->
                /\ buf' = Pad(buf, stmt.size)
                /\ ip' = ip + 1
                /\ UNCHANGED <<pc, bb_pos>>
           [] stmt.op = "put" ->
                /\ buf' = Put(buf, stmt.method, args[stmt.arg])
                /\ ip' = ip + 1
                /\ UNCHANGED <<pc, bb_pos>>
           [] OTHER ->
                /\ bb_pos' = Len(buf)
                /\ pc' = "built"
                /\ UNCHANGED <<buf, ip>>
    /\ UNCHANGED <<genVars, lookupVars, tableVars, args>>

\* start<Record> runs.
StartCall ==
    /\ pc = "generated"
    /\ ~Target.fixed
    /\ FuncAt(TargetCode, "start") # 0
    /\ vtable' = StartObject(FuncBody(TargetCode, "start")[1].numFields)
    /\ added' = {}
    /\ pc' = "started"
    /\ UNCHANGED <<genVars, lookupVars, buildVars>>

\* add<Field> runs for a field not added so far.
AddCall ==
    /\ pc = "started"
    /\ \E i \in (1..Len(Target.fields)) \ added, pick \in 1..2 :
          LET field == Target.fields[i]
              name  == "add" \o field.name
              stmt  == FuncBody(TargetCode, name)[1]
          IN  /\ FuncAt(TargetCode, name) # 0
              /\ vtable' = AddSlot(vtable, stmt.slot, AddValues(field)[pick],
                                   stmt.default)
              /\ added' = added \cup {i}
              /\ args' = (field.name :> AddValues(field)[pick]) @@ args
    /\ UNCHANGED <<genVars, lookupVars, buf, ip, bb_pos, pc>>

\* end<Record> runs.
EndCall ==
    /\ pc = "started"
    /\ pc' = EndObject(TargetCode, vtable)
    /\ UNCHANGED <<genVars, lookupVars, buildVars, tableVars>>

\* create<Record> runs: startObject, its add calls in the order emitted,
\* end<Record>.
CreateTableCall ==
    /\ pc = "generated"
    /\ ~Target.fixed
    /\ FuncAt(TargetCode, "create") # 0
    /\ LET f      == FuncAt(TargetCode, "create")
           body   == FuncBody(TargetCode, "create")
           live   == SelectSeq(Target.fields, LAMBDA fd : ~fd.deprecated)
           calls  == SelectSeq(body, LAMBDA t : t.op = "callAdd")
       IN  \E pick \in [1..Len(live) -> 1..2] :
             LET values == [a \in {ArgName(live[j]) : j \in 1..Len(live)} |->
                             LET j == CHOOSE k \in 1..Len(live) :
                                         ArgName(live[k]) = a
                             IN  AddValues(live[j])[pick[j]]]
                 vt == RunAdds(TargetCode, calls,
                               StartObject(body[1].numFields), values)
             IN  /\ vtable' = vt
                 /\ added' = {i \in 1..Len(Target.fields) :
                                \E c \in 1..Len(calls) :
                                   calls[c].name = "add" \o Target.fields[i].name}
                 /\ args' = [n \in {live[j].name : j \in 1..Len(live)} |->
                                LET j == CHOOSE k \in 1..Len(live) :
                                            live[k].name = n
                                IN  AddValues(live[j])[pick[j]]]
                 /\ pc' = EndObject(TargetCode, vt)
    /\ UNCHANGED <<genVars, lookupVars, buf, ip, bb_pos>>

\* A table of this schema written elsewhere arrives: any of its slots may
\* be filled.
Receive ==
    /\ pc = "generated"
    /\ ~Target.fixed
    /\ \E filled \in SUBSET (1..Len(Target.fields)) :
          vtable' = [i \in 1..Len(Target.fields) |->
                       IF i \in filled
                       THEN [set |-> TRUE,
                             value |-> AddValues(Target.fields[i])[2]]
                       ELSE [set |-> FALSE]]
    /\ pc' = "received"
    /\ UNCHANGED <<genVars, lookupVars, buildVars, added>>

\* A record of this schema serialized elsewhere arrives in a buffer, behind
\* MaxPrior other bytes: a fixed record, or a table of which any fields may
\* be present.
ReceiveBuffer ==
    /\ pc = "generated"
    /\ \E prior \in {MaxPrior} :
          /\ bb_pos' = prior
          /\ IF Target.fixed
             THEN /\ buf' = [k \in 1..prior |-> 255]
                              \o [k \in 1..Target.bytesize |-> Stored]
                  /\ vtable' = <<>>
             ELSE \E filled \in SUBSET (1..Len(Target.fields)) :
                  /\ buf' = [k \in 1..prior |-> 255]
                              \o TableBytes(structs, Target, filled)
                  /\ vtable' = [i \in 1..Len(Target.fields) |->
                                  [set |-> i \in filled,
                                   o |-> FieldOffsetIn(structs, Target,
                                                       filled, i)]]
    /\ pc' = "received"
    /\ UNCHANGED <<genVars, lookupVars, ip, args, added>>

\* An emitted mutator runs on the record received: mutate<Field>(x), and
\* mutate<Field>(j, x) for the first and for the last element of a vector.
MutateCall ==
    /\ pc = "received"
    /\ \E i \in 1..Len(TargetCode), x \in MutateValues, j \in {0, MaxElems - 1} :
          LET tok == TargetCode[i] IN
          /\ tok.op = "mutator"
          /\ Len(tok.params) = 1 => j = 0
          /\ tok.value = "(byte)(x ? 1 : 0)" => x = 1
          /\ x < 256 \/ SetterWidth(tok.setter) > 1
          /\ LET o == Offset(vtable, tok.voffset) IN
             IF tok.guarded /\ o = 0
             THEN /\ result' = Returned(FALSE)
                  /\ buf' = buf
             ELSE /\ buf' = PutAt(buf, SetterAddress(tok, buf, bb_pos, o, j),
                                  SetterValue(tok, x), SetterWidth(tok.setter))
                  /\ result' = IF tok.returns = "Bool" THEN Returned(TRUE)
                               ELSE Nil
          /\ args' = [name |-> tok.name, x |-> x, j |-> j]
    /\ pc' = "mutated"
    /\ UNCHANGED <<genVars, vec, key, start, span, probes, ip, bb_pos,
                   tableVars>>

InitTable ==
    /\ pc = "init"
    /\ it = 1
    /\ code = << <<>>, <<>>, <<>> >>
    /\ vec = <<>> /\ key = 0
    /\ start = 0 /\ span = 0 /\ probes = 0 /\ result = Nil
    /\ buf = <<>> /\ ip = 0 /\ args = <<>> /\ bb_pos = 0
    /\ vtable = <<>> /\ added = {}
    /\ enums = << Color, AnyRec >>
    /\ opts = [one_file |-> FALSE, mutable_buffer |-> FALSE]
    /\ eit = 1 /\ ecode = << <<>>, <<>> >> /\ one_file_code = <<>>
    /\ units = <<>> /\ prev = <<>> /\ runs = 1
    /\ \E decls \in SeqsUpTo(FieldPalette, MaxTableFields) :
          structs = << FixedStruct(<<>>, "Inner", << "ubyte", "short" >>),
                       PlainTable, TableOf(decls, FALSE) >>

NextTable ==
    GenerateEnum \/ Generate \/ GenerateReturn \/ StartCall \/ AddCall \/ EndCall \/ CreateTableCall \/ Receive

SpecTable == InitTable /\ [][NextTable]_vars

\* The schemas of the runs of create<Record>: the tables above, with
\* sortbysize set or not.
InitCreate ==
    /\ pc = "init"
    /\ it = 1
    /\ code = << <<>>, <<>>, <<>> >>
    /\ vec = <<>> /\ key = 0
    /\ start = 0 /\ span = 0 /\ probes = 0 /\ result = Nil
    /\ buf = <<>> /\ ip = 0 /\ args = <<>> /\ bb_pos = 0
    /\ vtable = <<>> /\ added = {}
    /\ enums = << Color, AnyRec >>
    /\ opts = [one_file |-> FALSE, mutable_buffer |-> FALSE]
    /\ eit = 1 /\ ecode = << <<>>, <<>> >> /\ one_file_code = <<>>
    /\ units = <<>> /\ prev = <<>> /\ runs = 1
    /\ \E decls \in SeqsUpTo(FieldPalette, MaxTableFields),
          sortbysize \in BOOLEAN :
          structs = << FixedStruct(<<>>, "Inner", << "ubyte", "short" >>),
                       PlainTable, TableOf(decls, sortbysize) >>

NextCreate ==
    GenerateEnum \/ Generate \/ GenerateReturn \/ CreateTableCall

SpecCreate == InitCreate /\ [][NextCreate]_vars

\* The schemas of the runs with mutators: the last record is a table or a
\* fixed record, and mutable_buffer is set or not.
InitMutate ==
    /\ pc = "init"
    /\ it = 1
    /\ code = << <<>>, <<>>, <<>> >>
    /\ vec = <<>> /\ key = 0
    /\ start = 0 /\ span = 0 /\ probes = 0 /\ result = Nil
    /\ buf = <<>> /\ ip = 0 /\ args = <<>> /\ bb_pos = 0
    /\ vtable = <<>> /\ added = {}
    /\ enums = << Color, AnyRec >>
    /\ \E mutable \in BOOLEAN :
          opts = [one_file |-> FALSE, mutable_buffer |-> mutable]
    /\ eit = 1 /\ ecode = << <<>>, <<>> >> /\ one_file_code = <<>>
    /\ units = <<>> /\ prev = <<>> /\ runs = 1
    /\ LET inner == FixedStruct(<<>>, "Inner", << "ubyte", "short" >>) IN
       \E last \in {TableOf(decls, FALSE) :
                       decls \in SeqsUpTo(MutatePalette, MaxTableFields)}
                  \cup {FixedStruct(<< inner >>, "Outer", syms) :
                           syms \in SeqsUpTo(MutateSyms, MaxOuterFields)} :
          structs = << inner, PlainTable, last >>

NextMutate ==
    GenerateEnum \/ Generate \/ GenerateReturn \/ ReceiveBuffer \/ MutateCall

SpecMutate == InitMutate /\ [][NextMutate]_vars

\* The enums and the records the schemas of the whole-schema runs are made
\* of: a fixed record, a table with one field and a table with a scalar and
\* a vector of scalars.
EnumPool == { Color, AnyRec }

StructPool ==
    { FixedStruct(<<>>, "Inner", << "ubyte", "short" >>),
      PlainTable,
      TableOf(<< Decl(ScalarType("int"), FALSE, FALSE, 5),
                 Decl(MkType("vector", "short", "", ""), FALSE, FALSE, 0) >>,
              FALSE) }

\* The sequences of at most n different members of S, the empty one included.
Arrangements(S, n) ==
    { <<>> } \cup {q \in SeqsUpTo(S, n) :
                      \A i, j \in 1..Len(q) : i # j => q[i] # q[j]}

\* The definitions defs, those named in `marked` being marked generated (as
\* the definitions of an included schema are).
MarkGenerated(defs, marked) ==
    [i \in 1..Len(defs) |->
        [defs[i] EXCEPT !.generated = (defs[i].name \in marked)]]

\* The schemas of the whole-schema runs: up to MaxEntities enums and up to
\* MaxEntities records in any order, at most one of them marked generated,
\* and both options either way.
InitGen ==
    /\ pc = "init"
    /\ it = 1
    /\ vec = <<>> /\ key = 0
    /\ start = 0 /\ span = 0 /\ probes = 0 /\ result = Nil
    /\ buf = <<>> /\ ip = 0 /\ args = <<>> /\ bb_pos = 0
    /\ vtable = <<>> /\ added = {}
    /\ eit = 1 /\ one_file_code = <<>>
    /\ units = <<>> /\ prev = <<>> /\ runs = 1
    /\ \E one_file \in BOOLEAN, mutable \in BOOLEAN :
          opts = [one_file |-> one_file, mutable_buffer |-> mutable]
    /\ \E es \in Arrangements(EnumPool, MaxEntities),
          ss \in Arrangements(StructPool, MaxEntities) :
          \E marked \in SUBSET ({es[i].name : i \in 1..Len(es)}
                                   \cup {ss[i].name : i \in 1..Len(ss)}) :
             /\ Cardinality(marked) <= 1
             /\ enums = MarkGenerated(es, marked)
             /\ structs = MarkGenerated(ss, marked)
             /\ ecode = [i \in 1..Len(es) |-> <<>>]
             /\ code = [i \in 1..Len(ss) |-> <<>>]

NextGen == GenerateEnum \/ Generate \/ GenerateReturn \/ GenerateAgain

SpecGen == InitGen /\ [][NextGen]_vars

\* The declarations of the tables that take the emitters to their default
\* branches: next to an int and a string, a union, and a field whose Type
\* has no base type (BASE_TYPE_NONE, as a default-constructed Type has).
UnhandledPalette ==
    { Decl(ScalarType("int"), FALSE, FALSE, 5),
      Decl(StringType, FALSE, FALSE, 0),
      Decl(MkType("union", "none", "", "AnyRec"), FALSE, FALSE, 0),
      Decl(MkType("none", "none", "", ""), FALSE, FALSE, 0) }

InitUnhandled ==
    /\ pc = "init"
    /\ it = 1
    /\ code = << <<>>, <<>> >>
    /\ vec = <<>> /\ key = 0
    /\ start = 0 /\ span = 0 /\ probes = 0 /\ result = Nil
    /\ buf = <<>> /\ ip = 0 /\ args = <<>> /\ bb_pos = 0
    /\ vtable = <<>> /\ added = {}
    /\ enums = << Color, AnyRec >>
    /\ \E one_file \in BOOLEAN :
          opts = [one_file |-> one_file, mutable_buffer |-> FALSE]
    /\ eit = 1 /\ ecode = << <<>>, <<>> >> /\ one_file_code = <<>>
    /\ units = <<>> /\ prev = <<>> /\ runs = 1
    /\ \E decls \in SeqsUpTo(UnhandledPalette, MaxTableFields) :
          structs = << PlainTable, TableOf(decls, FALSE) >>

NextUnhandled == GenerateEnum \/ Generate \/ GenerateReturn

SpecUnhandled == InitUnhandled /\ [][NextUnhandled]_vars

-----------------------------------------------------------------------------
(* The emitted sorted-vector constructor, run.                             *)

\* What the closure handed to offsets.sort yields for (o1, o2), the records
\* standing for their keys.  `<comparison> < 0` when the comparison is an
\* expression.  When the comparison text ends in its own return statement
\* the closure yields the three-way number, and the `< 0` behind it is
\* never evaluated.
ClosureYields(stmt, o1, o2) ==
    IF stmt.comp.form = "expression"
    THEN [bool |-> TRUE, value |-> Compare(stmt.comp.how, o1, o2) < 0]
    ELSE [bool |-> FALSE, value |-> Compare(stmt.comp.how, o1, o2)]

\* The arrangements of the members of offsets.
Reorderings(offsets) ==
    {p \in [1..Len(offsets) -> {offsets[i] : i \in 1..Len(offsets)}] :
        \A i, j \in 1..Len(p) : i # j => p[i] # p[j]}

\* Array.sort(by:): with a closure that says whether its first argument
\* goes before its second, an arrangement in which no element goes before
\* one that stands earlier; with a closure that yields no truth value the
\* outcome is not defined, any arrangement may result.
SortBy(stmt, offsets) ==
    {p \in Reorderings(offsets) :
        (\A i, j \in 1..Len(p) : ClosureYields(stmt, p[i], p[j]).bool)
          => \A i, j \in 1..Len(p) :
                i < j => ~ClosureYields(stmt, p[j], p[i]).value}

\* createMySortedVectorOfTables is called on the offsets of records built
\* before, in any order.
SortCall ==
    /\ pc = "generated"
    /\ FuncAt(TargetCode, "createMySortedVectorOfTables") # 0
    /\ ip' = 1
    /\ pc' = "sorting"
    /\ UNCHANGED <<genVars, lookupVars, buf, args, bb_pos, tableVars>>

\* One statement of createMySortedVectorOfTables: `offsets.sort {..}`
\* reorders the offsets, `return builder.createVectorOfTables(offsets)`
\* writes them out as they stand.
SortStatement ==
    /\ pc = "sorting"
    /\ LET body == FuncBody(TargetCode, "createMySortedVectorOfTables")
           stmt == body[ip]
       IN  IF stmt.op = "sort"
           THEN /\ args' \in SortBy(stmt, args)
                /\ ip' = ip + 1
                /\ UNCHANGED <<vec, pc>>
           ELSE /\ stmt.op = "createVectorOfTables"
                /\ vec' = args
                /\ pc' = "serialized"
                /\ UNCHANGED <<args, ip>>
    /\ UNCHANGED <<genVars, key, start, span, probes, result, buf, bb_pos,
                   tableVars>>

\* A keyed table with a string or an int key, and up to MaxSortLen records
\* with different keys, their offsets in any order.
InitSort ==
    /\ pc = "init"
    /\ it = 1
    /\ code = << <<>> >>
    /\ vec = <<>> /\ key = 0
    /\ start = 0 /\ span = 0 /\ probes = 0 /\ result = Nil
    /\ buf = <<>> /\ ip = 0 /\ bb_pos = 0
    /\ enums = <<>> /\ vtable = <<>> /\ added = {}
    /\ opts = [one_file |-> FALSE, mutable_buffer |-> FALSE]
    /\ eit = 1 /\ ecode = <<>> /\ one_file_code = <<>>
    /\ units = <<>> /\ prev = <<>> /\ runs = 1
    /\ \E isString \in BOOLEAN, q \in Arrangements(KeyNumbers, MaxSortLen) :
          /\ structs = << KeyedTable(IF isString THEN StringType
                                     ELSE ScalarType("int")) >>
          /\ args = [i \in 1..Len(q) |-> Native(isString, q[i])]

NextSort == Generate \/ GenerateReturn \/ SortCall \/ SortStatement

SpecSort == InitSort /\ [][NextSort]_vars

\* The declarations of the tables whose accessors read through a cast, and
\* of some that do not.
CastPalette ==
    { Decl(ScalarType("int"), FALSE, FALSE, 5),
      Decl(MkType("byte", "none", "", "Color"), FALSE, FALSE, 1),
      Decl(MkType("vector", "byte", "", "Color"), FALSE, FALSE, 0),
      Decl(MkType("vector", "int", "", ""), FALSE, FALSE, 0),
      Decl(MkType("vector", "string", "", ""), FALSE, FALSE, 0),
      Decl(StringType, FALSE, FALSE, 0),
      Decl(MkType("struct", "none", "Rec", ""), FALSE, FALSE, 0) }

InitCast ==
    /\ pc = "init"
    /\ it = 1
    /\ code = << <<>>, <<>> >>
    /\ vec = <<>> /\ key = 0
    /\ start = 0 /\ span = 0 /\ probes = 0 /\ result = Nil
    /\ buf = <<>> /\ ip = 0 /\ args = <<>> /\ bb_pos = 0
    /\ vtable = <<>> /\ added = {}
    /\ enums = << Color, AnyRec >>
    /\ opts = [one_file |-> FALSE, mutable_buffer |-> FALSE]
    /\ eit = 1 /\ ecode = << <<>>, <<>> >> /\ one_file_code = <<>>
    /\ units = <<>> /\ prev = <<>> /\ runs = 1
    /\ \E decls \in SeqsUpTo(CastPalette, MaxTableFields) :
          structs = << PlainTable, TableOf(decls, FALSE) >>

NextCast == GenerateEnum \/ Generate \/ GenerateReturn

SpecCast == InitCast /\ [][NextCast]_vars

\* The keys of the vectors in any order, and the queries: a query between
\* the keys takes the loop through every sequence of branches, a query
\* among them to its return.
ProbeKeys == {1, 3}

ProbeQueries == {1, 2}

\* A keyed table, and a vector of up to MaxProbeLen records whose keys
\* stand in any order, repeated keys included.
InitProbe ==
    /\ pc = "init"
    /\ it = 1
    /\ code = << <<>> >>
    /\ start = 0 /\ span = 0 /\ probes = 0 /\ result = Nil
    /\ buf = <<>> /\ ip = 0 /\ args = <<>> /\ bb_pos = 0
    /\ enums = <<>> /\ vtable = <<>> /\ added = {}
    /\ opts = [one_file |-> FALSE, mutable_buffer |-> FALSE]
    /\ eit = 1 /\ ecode = <<>> /\ one_file_code = <<>>
    /\ units = <<>> /\ prev = <<>> /\ runs = 1
    /\ \E isString \in BOOLEAN, q \in ProbeQueries,
          v \in {<<>>} \cup SeqsUpTo(ProbeKeys, MaxProbeLen) :
          /\ structs = << KeyedTable(IF isString THEN StringType
                                     ELSE ScalarType("int")) >>
          /\ vec = [i \in 1..Len(v) |-> Native(isString, v[i])]
          /\ key = Native(isString, q)

NextProbe ==
    Generate \/ GenerateReturn \/ LookupCall \/ LookupStep \/ LookupExit

SpecProbe == InitProbe /\ [][NextProbe]_vars

\* The same runs, none of them halted while a step is possible.
SpecProbeFair == SpecProbe /\ WF_vars(NextProbe)

InitEnum ==
    /\ pc = "init"
    /\ it = 1
    /\ code = << <<>> >>
    /\ vec = <<>> /\ key = 0
    /\ start = 0 /\ span = 0 /\ probes = 0 /\ result = Nil
    /\ buf = <<>> /\ ip = 0 /\ args = <<>> /\ bb_pos = 0
    /\ vtable = <<>> /\ added = {}
    /\ opts = [one_file |-> FALSE, mutable_buffer |-> FALSE]
    /\ eit = 1 /\ ecode = << <<>> >> /\ one_file_code = <<>>
    /\ units = <<>> /\ prev = <<>> /\ runs = 1
    /\ \E vals \in EnumShapes \cup NamedShapes, d \in DefaultValues :
          /\ enums = << EnumOf(vals) >>
          /\ structs = << TableOf(<< Decl(MkType("byte", "none", "", "E"),
                                          FALSE, FALSE, d) >>, FALSE) >>

NextEnum == GenerateEnum \/ Generate \/ GenerateReturn

SpecEnum == InitEnum /\ [][NextEnum]_vars

InitStruct ==
    /\ pc = "init"
    /\ it = 1
    /\ code = << <<>>, <<>>, <<>> >>
    /\ vec = <<>> /\ key = 0
    /\ start = 0 /\ span = 0 /\ probes = 0 /\ result = Nil
    /\ ip = 0 /\ args = <<>> /\ bb_pos = 0
    /\ enums = <<>> /\ vtable = <<>> /\ added = {}
    /\ opts = [one_file |-> FALSE, mutable_buffer |-> FALSE]
    /\ eit = 1 /\ ecode = <<>> /\ one_file_code = <<>>
    /\ units = <<>> /\ prev = <<>> /\ runs = 1
    /\ \E inner \in SeqsUpTo(InnerSyms, MaxInnerFields), mid \in MidShapes,
          outer \in SeqsUpTo(OuterSyms, MaxOuterFields), prior \in 0..MaxPrior :
          /\ ~Uses(outer, "Mid") => mid = << "ubyte", "Inner" >>
          /\ ~(Uses(outer, "Mid") \/ Uses(outer, "Inner")) => inner = << "ubyte" >>
          /\ LET i == FixedStruct(<<>>, "Inner", inner)
                 m == FixedStruct(<< i >>, "Mid", mid)
                 o == FixedStruct(<< i, m >>, "Outer", outer)
             IN  structs = << i, m, o >>
          /\ buf = [j \in 1..prior |-> 255]

NextStruct ==
    Generate \/ GenerateReturn \/ CreateStructCall \/ ExecStatement

SpecStruct == InitStruct /\ [][NextStruct]_vars

InitLookup ==
    /\ pc = "init"
    /\ it = 1
    /\ code = << <<>> >>
    /\ start = 0 /\ span = 0 /\ probes = 0 /\ result = Nil
    /\ buf = <<>> /\ ip = 0 /\ args = <<>> /\ bb_pos = 0
    /\ enums = <<>> /\ vtable = <<>> /\ added = {}
    /\ opts = [one_file |-> FALSE, mutable_buffer |-> FALSE]
    /\ eit = 1 /\ ecode = <<>> /\ one_file_code = <<>>
    /\ units = <<>> /\ prev = <<>> /\ runs = 1
    /\ \E isString \in BOOLEAN, S \in SUBSET KeyNumbers, q \in QueryNumbers :
          /\ structs = << KeyedTable(IF isString THEN StringType
                                     ELSE ScalarType("int")) >>
          /\ vec = SortedKeys(isString, S)
          /\ key = Native(isString, q)

NextLookup ==
    Generate \/ GenerateReturn \/ LookupCall \/ LookupStep \/ LookupExit

SpecLookup == InitLookup /\ [][NextLookup]_vars

-----------------------------------------------------------------------------
(* Claims about the Vector Key-Lookup Emitter.                              *)

\* 0-based index of the record of v whose key equals k, Nil when none has it.
Expected(v, k) ==
    LET at == {i \in 1..Len(v) : v[i] = k}
    IN  IF at = {} THEN Nil ELSE Found((CHOOSE i \in at : TRUE) - 1)

RECURSIVE CeilLog2From(_, _, _)
CeilLog2From(n, k, pow) ==
    IF pow >= n THEN k ELSE CeilLog2From(n, k + 1, 2 * pow)

\* The least k with 2^k >= n.
CeilLog2(n) == CeilLog2From(n, 0, 1)

LookupEnded == pc \in {"done", "malformed"}

\* C1: the emitted lookupByKey is a correct binary search: on a vector
\* sorted ascending by unique key it ends by returning the record whose
\* key equals the query when there is one, and nil when there is none.
C1_LookupIsBinarySearch ==
    (LookupEnded /\ IsKeySorted(vec, NativeHow(KeyIsString)))
        => (pc = "done" /\ result = Expected(vec, key))

\* C2: for a record with a key, whatever the type of the key field, the
\* emitted text holds the sort routine and a complete lookup routine:
\* cursor initialisation, the while loop, the three-way branch and the
\* final return of nil.
C2_BothRoutinesWhateverKeyType ==
    (it > Len(structs) /\ Target.has_key)
        => /\ HasOp(FuncBody(TargetCode, "createMySortedVectorOfTables"), "sort")
           /\ \A op \in {"cursorInit", "while", "branch", "returnNil", "endfunc"} :
                 HasOp(FuncBody(TargetCode, "lookupByKey"), op)

\* C3: on a key-sorted vector of 7 records the emitted lookup reads at
\* most ceil(log2 7) = 3 keys, whether the query is present or absent.
C3_AtMostThreeProbesOnSeven ==
    (Len(vec) = 7 /\ IsKeySorted(vec, NativeHow(KeyIsString)))
        => probes <= CeilLog2(7)

\* A lookup of an absent key on 7 records that returned nil after 3 probes.
C3_Witness ==
    /\ pc = "done" /\ Len(vec) = 7 /\ result = Nil /\ probes = 3
    /\ Expected(vec, key) = Nil

-----------------------------------------------------------------------------
(* Claims about the Layout Emitter.                                         *)

RECURSIVE SumSeq(_)
SumSeq(q) == IF q = <<>> THEN 0 ELSE Head(q) + SumSeq(Tail(q))

\* Every fixed record: the inline sizes and trailing paddings of its
\* fields add up to bytesize.
LayoutAddsUp(defs) ==
    \A d \in 1..Len(defs) :
        defs[d].fixed =>
            SumSeq([i \in 1..Len(defs[d].fields) |->
                       InlineSize(defs, defs[d].fields[i].type)
                       + defs[d].fields[i].padding]) = defs[d].bytesize

FieldNamed(struct_def, name) ==
    struct_def.fields[CHOOSE i \in 1..Len(struct_def.fields) :
                         struct_def.fields[i].name = name]

RECURSIVE FieldAt(_, _, _)
\* The field a path of field names leads to, from struct_def inwards.
FieldAt(defs, struct_def, path) ==
    LET f == FieldNamed(struct_def, Head(path)) IN
    IF Len(path) = 1 THEN f
    ELSE FieldAt(defs, StructNamed(defs, f.type.struct_def), Tail(path))

\* The record that declares the field the path leads to.
OwnerAt(defs, struct_def, path) ==
    IF Len(path) = 1 THEN struct_def
    ELSE StructNamed(defs,
             FieldAt(defs, struct_def, SubSeq(path, 1, Len(path) - 1)).type.struct_def)

RECURSIVE DeclLeaves(_, _, _)
\* The paths of the leaf fields in declaration order, nested records
\* flattened in place.
DeclLeaves(defs, struct_def, prefix) ==
    IF struct_def.fields = <<>> THEN <<>>
    ELSE LET f == Head(struct_def.fields)
             rest == [struct_def EXCEPT !.fields = Tail(struct_def.fields)]
         IN  (IF IsStruct(defs, f.type)
              THEN DeclLeaves(defs, StructNamed(defs, f.type.struct_def),
                              prefix \o << f.name >>)
              ELSE << prefix \o << f.name >> >>)
             \o DeclLeaves(defs, rest, prefix)

Reverse(q) == [i \in 1..Len(q) |-> q[Len(q) + 1 - i]]

IsWrite(stmt) == stmt.op \in {"pad", "put"}

IsPut(stmt) == stmt.op = "put"

IsPrep(stmt) == stmt.op = "prep"

\* The statements of the emitted create<Record> of the target.
CreateBody == FuncBody(TargetCode, "create")

\* Its pad and put statements, in emission order.
Writes == SelectSeq(CreateBody, IsWrite)

\* The sizes of the pad statements that stand directly in front of
\* statement m, in emission order.
PadRunBefore(w, m) ==
    LET stops == {i \in 1..(m - 1) : w[i].op # "pad"}
        lo    == IF stops = {} THEN 0
                 ELSE CHOOSE i \in stops : \A j \in stops : j <= i
    IN  [i \in 1..(m - 1 - lo) |-> w[lo + i].size]

\* The write of leaf `path` is the first write of the record nested at
\* its prefix of length n: every deeper field on the path is the last one
\* declared in its record.
OpensRecordAt(defs, struct_def, path, n) ==
    \A j \in (n + 1)..Len(path) :
        LET owner == OwnerAt(defs, struct_def, SubSeq(path, 1, j))
        IN  owner.fields[Len(owner.fields)].name = path[j]

RECURSIVE PadsDue(_, _, _, _)
\* The paddings (non-zero ones) that must stand in front of the write of
\* leaf `path`: its own, and that of every nested record on the path whose
\* writes this write opens; outermost first.
PadsDue(defs, struct_def, path, n) ==
    IF n > Len(path) THEN <<>>
    ELSE LET f == FieldAt(defs, struct_def, SubSeq(path, 1, n)) IN
         (IF f.padding # 0 /\ OpensRecordAt(defs, struct_def, path, n)
          THEN << f.padding >> ELSE <<>>)
         \o PadsDue(defs, struct_def, path, n + 1)

RECURSIVE RecordsVisited(_, _)
\* The record and the fixed records nested in it, in the order in which
\* GenStructBody enters them.
RecordsVisited(defs, struct_def) ==
    << struct_def >> \o
    Concat([k \in 1..Len(struct_def.fields) |->
        LET f == struct_def.fields[Len(struct_def.fields) + 1 - k] IN
        IF IsStruct(defs, f.type)
        THEN RecordsVisited(defs, StructNamed(defs, f.type.struct_def))
        ELSE <<>>])

PriorBytes(b) == Cardinality({i \in 1..Len(b) : b[i] = 255})

\* C4: fixed-record round trip.  When the layout adds up to bytesize,
\* running the emitted create<Record> and then reading every leaf field
\* with the emitted accessors (through the nested records) gives the value
\* passed for it, and the record is one block of bytesize bytes ending at
\* a multiple of minalign.
C4_FixedRoundTrip ==
    (pc = "built" /\ LayoutAddsUp(structs))
        => /\ \A p \in DOMAIN args :
                ReadPath(structs, code, buf, Target.name, Len(buf) - bb_pos, p)
                    = args[p]
           /\ bb_pos = AlignUp(PriorBytes(buf) + Target.bytesize, Target.minalign)

\* A record with a leaf two records deep and trailing padding was built
\* behind earlier bytes and read back.
C4_Witness ==
    /\ pc = "built"
    /\ PriorBytes(buf) > 0
    /\ \E p \in DOMAIN args :
          /\ Len(p) = 3
          /\ FieldAt(structs, Target, p).padding # 0
          /\ ReadPath(structs, code, buf, Target.name, Len(buf) - bb_pos, p)
                = args[p]

\* C5: in the emitted write sequence of a fixed record the leaf fields are
\* written in reverse declaration order at every nesting level, the pad of
\* a field with trailing padding stands directly in front of that field's
\* write (for a nested record: in front of its writes), and no pad follows
\* the last write.
C5_ReverseOrderPadFirst ==
    (pc = "generated" /\ Target.fixed)
        => /\ [i \in 1..Len(SelectSeq(Writes, IsPut)) |->
                  SelectSeq(Writes, IsPut)[i].arg]
                = Reverse(DeclLeaves(structs, Target, <<>>))
           /\ \A m \in 1..Len(Writes) :
                 Writes[m].op = "put" =>
                    PadRunBefore(Writes, m)
                        = PadsDue(structs, Target, Writes[m].arg, 1)
           /\ Writes[Len(Writes)].op = "put"

\* The text of a record whose first write is preceded by the pad of a
\* nested record and the pad of that record's own last field.
C5_Witness ==
    /\ pc = "generated" /\ Target.fixed
    /\ \E m \in 1..Len(Writes) :
          /\ Writes[m].op = "put"
          /\ Len(PadRunBefore(Writes, m)) = 2

\* C6 as stated: the flattened construction sequence holds exactly one
\* reserve call, the one of the outermost record.
C6_ExactlyOneReserve ==
    (pc = "generated" /\ Target.fixed)
        => /\ Len(SelectSeq(CreateBody, IsPrep)) = 1
           /\ CreateBody[1] = [op |-> "prep", size |-> Target.minalign,
                               additionalBytes |-> Target.bytesize]

\* C6 amended: the sequence starts with the reserve call of the outermost
\* record, with its minalign and bytesize, and holds one further reserve
\* call for every nested fixed record GenStructBody recurses into, with
\* that record's minalign and bytesize, in the order of the recursion.
C6_OneReservePerRecord ==
    (pc = "generated" /\ Target.fixed)
        => /\ CreateBody[1] = [op |-> "prep", size |-> Target.minalign,
                               additionalBytes |-> Target.bytesize]
           /\ SelectSeq(CreateBody, IsPrep)
                = [k \in 1..Len(RecordsVisited(structs, Target)) |->
                     [op |-> "prep",
                      size |-> RecordsVisited(structs, Target)[k].minalign,
                      additionalBytes |-> RecordsVisited(structs, Target)[k].bytesize]]

\* The text of a record with a record nested two deep: three reserve calls.
C6_Witness ==
    /\ pc = "generated" /\ Target.fixed
    /\ Len(RecordsVisited(structs, Target)) >= 3
    /\ Len(SelectSeq(CreateBody, IsPrep)) >= 3

-----------------------------------------------------------------------------
(* Claims about the Table Emitter.                                         *)

\* The table of the run is complete and can be read.
TableReadable == pc \in {"ended", "received"}

\* The positions of the non-deprecated fields whose slot is absent.
AbsentFields ==
    {i \in 1..Len(Target.fields) :
        /\ ~Target.fields[i].deprecated
        /\ ~Present(vtable, Target.fields[i].offset)}

\* The default the schema declares for a scalar field, as a literal: the
\* truth value of a bool, the enumerator of an enum, the number otherwise.
DeclaredDefault(edefs, field) ==
    IF field.type.base_type = "bool"
    THEN BoolLit(field.constant # Digits(0))
    ELSE IF field.type.enum_def # ""
    THEN LET e   == EnumNamed(edefs, field.type.enum_def)
             hit == CHOOSE i \in 1..Len(e.vals) :
                       Digits(e.vals[i].value) = field.constant
         IN  CaseLit(e.name, e.vals[hit].name)
    ELSE RawLit(field.constant)

IsLiteral(r, lit) == r.ret = "literal" /\ r.lit = lit

\* What the accessors of an absent field must return, by the field's kind.
AbsentReadAsDeclared(field) ==
    LET r  == ReadAccessor(AccessorOf(TargetCode, field.name), vtable)
        bt == field.type.base_type
    IN  CASE IsScalar(bt) -> IsLiteral(r, DeclaredDefault(enums, field))
          [] bt = "string" -> field.required \/ r.ret = "nil"
          [] bt \in {"struct", "union"} -> r.ret = "nil"
          [] bt = "vector" ->
               /\ CASE field.type.element = "struct" -> r.ret = "nil"
                    [] field.type.element = "bool" ->
                         IsLiteral(r, BoolLit(FALSE))
                    [] IsScalar(field.type.element) ->
                         IsLiteral(r, RawLit(Digits(0)))
                    [] OTHER -> TRUE
               /\ IsLiteral(ReadAccessor(
                       LengthAccessorOf(TargetCode, field.name), vtable),
                     RawLit(Digits(0)))
          [] OTHER -> TRUE

\* C7: for every non-deprecated table field whose slot is absent, the
\* emitted accessor returns the declared default for a scalar or enum field;
\* nil for a non-required string, a struct, a union and an element of a
\* vector of structs; false for an element of a vector of booleans; zero for
\* an element of a vector of other scalars; 0 for the vector length.
C7_AbsentFieldReadsDefault ==
    TableReadable =>
        \A i \in AbsentFields : AbsentReadAsDeclared(Target.fields[i])

\* A table built by start/add/end in which an enum field and a vector of
\* booleans were both left out and read as declared.
C7_Witness ==
    /\ pc = "ended"
    /\ Len(Target.fields) = 2
    /\ AbsentFields = {1, 2}
    /\ Target.fields[1].type.enum_def = "Color"
    /\ Target.fields[2].type = MkType("vector", "bool", "", "")
    /\ ReadAccessor(AccessorOf(TargetCode, "p"), vtable).lit
          = CaseLit("Color", "Green")
    /\ ReadAccessor(AccessorOf(TargetCode, "q"), vtable).lit = BoolLit(FALSE)

\* The accessor of the field is fatal on the table of the run.
FatalOnRead(field) ==
    \/ ReadAccessor(AccessorOf(TargetCode, field.name), vtable).ret
          = "fatalError"
    \/ /\ field.type.base_type = "vector"
       /\ ReadAccessor(LengthAccessorOf(TargetCode, field.name), vtable).ret
             = "fatalError"

\* C8: the emitted accessor of a string field whose slot is absent is fatal
\* if and only if the field is required; an absent non-required string
\* returns nil, and the accessor of no other kind of field is fatal on
\* absence.
C8_FatalIffRequiredString ==
    TableReadable =>
        \A i \in AbsentFields :
            LET field == Target.fields[i] IN
            /\ FatalOnRead(field) <=>
                  (field.type.base_type = "string" /\ field.required)
            /\ (field.type.base_type = "string" /\ ~field.required) =>
                  ReadAccessor(AccessorOf(TargetCode, field.name),
                               vtable).ret = "nil"

\* A received table that lacks its required string, next to an absent field
\* of another kind that is required too and reads nil.
C8_Witness ==
    /\ pc = "received"
    /\ Len(Target.fields) = 2
    /\ AbsentFields = {1, 2}
    /\ Target.fields[1].type.base_type = "string"
    /\ Target.fields[1].required
    /\ FatalOnRead(Target.fields[1])
    /\ Target.fields[2].type.base_type = "struct"
    /\ Target.fields[2].required
    /\ ~FatalOnRead(Target.fields[2])

\* A non-deprecated field marked required was never added.
MissingRequired ==
    \E i \in 1..Len(Target.fields) :
        /\ ~Target.fields[i].deprecated
        /\ Target.fields[i].required
        /\ i \notin added

\* C9: after start<Record>, any subset of add<Field> calls and then
\* end<Record>, end<Record> reaches the fatal construction error exactly
\* when a non-deprecated required field was never added; otherwise it
\* returns the offset of the record.
C9_EndFatalIffRequiredMissing ==
    /\ pc = "fatal" => MissingRequired
    /\ pc = "ended" =>
          /\ ~MissingRequired
          /\ HasOp(FuncBody(TargetCode, "end"), "returnOffset")

\* end<Record> failed after one of two required fields was added.
C9_Witness ==
    /\ pc = "fatal"
    /\ Len(Target.fields) = 2
    /\ \A i \in 1..2 : Target.fields[i].required
                           /\ ~Target.fields[i].deprecated
    /\ Cardinality(added) = 1

CreateEmitted == FuncAt(TargetCode, "create") # 0

\* The table has no non-deprecated field that is a fixed record.
NoLiveFixedStructField ==
    \A i \in 1..Len(Target.fields) :
        LET field == Target.fields[i] IN
        ~(/\ ~field.deprecated
          /\ field.type.base_type = "struct"
          /\ StructNamed(structs, field.type.struct_def).fixed)

SomeLiveField ==
    \E i \in 1..Len(Target.fields) : ~Target.fields[i].deprecated

\* C10 as stated: create<Record> is emitted for a table if and only if the
\* table has no non-deprecated field of fixed-struct type, whatever the
\* number of its fields.
C10_CreateIffNoStructField ==
    (it > Len(structs) /\ ~Target.fixed) =>
        (CreateEmitted <=> NoLiveFixedStructField)

\* C10: create<Record> is emitted for a table if and only if the table has
\* no non-deprecated field of fixed-struct type and has at least one
\* non-deprecated field.
C10_CreateIffNoStructFieldAndSomeField ==
    (it > Len(structs) /\ ~Target.fixed) =>
        (CreateEmitted <=> (NoLiveFixedStructField /\ SomeLiveField))

\* create<Record> was emitted for a table whose only fixed-struct field is
\* deprecated, and it ran.
C10_Witness ==
    /\ pc = "ended"
    /\ CreateEmitted
    /\ \E i \in 1..Len(Target.fields) :
          /\ Target.fields[i].deprecated
          /\ IsStruct(structs, Target.fields[i].type)
    /\ added # {}

\* The add calls of the emitted create<Record>, in the order emitted, each
\* as the position (from 1) of the field it adds.
CreateCallOrder ==
    LET calls == SelectSeq(FuncBody(TargetCode, "create"),
                           LAMBDA t : t.op = "callAdd")
    IN  [c \in 1..Len(calls) |->
            CHOOSE i \in 1..Len(Target.fields) :
                calls[c].name = "add" \o Target.fields[i].name]

FieldSize(i) == SizeOf(Target.fields[i].type.base_type)

\* The calls come in passes by size, the largest size first.
PassesLargestFirst ==
    \A c \in 1..(Len(CreateCallOrder) - 1) :
        FieldSize(CreateCallOrder[c]) >= FieldSize(CreateCallOrder[c + 1])

\* C11 as stated: when sortbysize is set, create<Record> emits its add calls
\* in passes by inline size from 8 down to 1, and within one pass the fields
\* of that size are added in their declaration order.
C11_PassesThenDeclarationOrder ==
    (it > Len(structs) /\ ~Target.fixed /\ Target.sortbysize /\ CreateEmitted) =>
        /\ PassesLargestFirst
        /\ \A c \in 1..(Len(CreateCallOrder) - 1) :
              FieldSize(CreateCallOrder[c]) = FieldSize(CreateCallOrder[c + 1])
                  => CreateCallOrder[c] < CreateCallOrder[c + 1]

\* C11: when sortbysize is set, create<Record> emits one add call for every
\* non-deprecated field, in passes by inline size from 8 down to 1, and
\* within one pass the fields of that size are added in reverse declaration
\* order, the last declared first.
C11_PassesThenReverseDeclarationOrder ==
    (it > Len(structs) /\ ~Target.fixed /\ Target.sortbysize /\ CreateEmitted) =>
        /\ PassesLargestFirst
        /\ \A c \in 1..(Len(CreateCallOrder) - 1) :
              FieldSize(CreateCallOrder[c]) = FieldSize(CreateCallOrder[c + 1])
                  => CreateCallOrder[c] > CreateCallOrder[c + 1]
        /\ {CreateCallOrder[c] : c \in 1..Len(CreateCallOrder)}
              = {i \in 1..Len(Target.fields) : ~Target.fields[i].deprecated}
        /\ Len(CreateCallOrder)
              = Cardinality({i \in 1..Len(Target.fields) :
                                ~Target.fields[i].deprecated})

\* create<Record> of a table sorted by size whose two fields have the same
\* size: the second field is added first; the routine ran to its end.
C11_Witness ==
    /\ pc = "ended"
    /\ Target.sortbysize
    /\ CreateEmitted
    /\ Len(Target.fields) = 2
    /\ FieldSize(1) = FieldSize(2)
    /\ CreateCallOrder = << 2, 1 >>
    /\ added = {1, 2}

-----------------------------------------------------------------------------
(* Claims about the Enum Emitter.                                          *)

TheEnum == enums[1]

\* GenEnum has come back from the enum: its text is complete.
EnumEmitted == eit > 1

NamesEmitted == HasOp(ecode[1], "names")

EnumValues == {TheEnum.vals[i].value : i \in 1..Len(TheEnum.vals)}

MaxValue == CHOOSE v \in EnumValues : \A w \in EnumValues : w <= v

MinValue == CHOOSE v \in EnumValues : \A w \in EnumValues : v <= w

IsAscending ==
    \A i \in 2..Len(TheEnum.vals) :
        TheEnum.vals[i - 1].value < TheEnum.vals[i].value

\* C12: the name table is emitted exactly when range / enumeratorCount is
\* below 5, with range = last value - first value + 1 over ascending
\* enumerators (range / count < 5 is range < 5 * count).
C12_NamesIffDensityBelowFive ==
    (EnumEmitted /\ IsAscending) =>
        (NamesEmitted <=>
            (MaxValue - MinValue + 1) < 5 * Len(TheEnum.vals))

\* The enum with the values 0, 1, 2, 3, 4 got its name table.
C12_Witness ==
    /\ EnumEmitted
    /\ [i \in 1..Len(TheEnum.vals) |-> TheEnum.vals[i].value]
          = << 0, 1, 2, 3, 4 >>
    /\ NamesEmitted

\* The density range / enumeratorCount is exactly 5.
DensityIsFive == (MaxValue - MinValue + 1) = 5 * Len(TheEnum.vals)

\* C13 as stated: an enum whose density is exactly 5 keeps its name table.
C13_BoundaryKeepsTable ==
    (EnumEmitted /\ IsAscending /\ DensityIsFive) => NamesEmitted

\* C13: an enum whose density is exactly 5 gets no name table; the table
\* is emitted only for a density below 5.
C13_BoundaryOmitsTable ==
    (EnumEmitted /\ IsAscending /\ DensityIsFive) => ~NamesEmitted

\* The enum with the values 0 and 9 was emitted without name table.
C13_Witness ==
    /\ EnumEmitted
    /\ [i \in 1..Len(TheEnum.vals) |-> TheEnum.vals[i].value] = << 0, 9 >>
    /\ ~NamesEmitted
    /\ HasOp(ecode[1], "endenum")

NamesEntries ==
    ecode[1][CHOOSE i \in 1..Len(ecode[1]) : ecode[1][i].op = "names"].entries

\* C14: a name table emitted for unique ascending values has exactly
\* max - min + 1 entries, the entry at index v - min is the name of the
\* enumerator with value v, and every other entry is the empty string.
C14_NamesIndexedByValue ==
    (EnumEmitted /\ IsAscending /\ NamesEmitted) =>
        /\ Len(NamesEntries) = MaxValue - MinValue + 1
        /\ \A k \in 1..Len(NamesEntries) :
              LET v == MinValue + k - 1 IN
              IF v \in EnumValues
              THEN \E i \in 1..Len(TheEnum.vals) :
                      /\ TheEnum.vals[i].value = v
                      /\ NamesEntries[k] = TheEnum.vals[i].name
              ELSE NamesEntries[k] = ""

\* A name table with gaps: the values 1, 3 and 6.
C14_Witness ==
    /\ EnumEmitted
    /\ NamesEmitted
    /\ [i \in 1..Len(TheEnum.vals) |-> TheEnum.vals[i].value] = << 1, 3, 6 >>
    /\ NamesEntries = << "A", "", "B", "", "", "C" >>

\* C15: the range used for the density decision is maxValue - minValue + 1
\* over all enumerators, also when they are not declared in ascending
\* order.
C15_RangeIsMaxMinusMin ==
    (EnumEmitted \/ pc = "exhausted") =>
        EnumRange(TheEnum) = MaxValue - MinValue + 1

\* The default the accessor of the enum field returns when absent.
EnumFieldDefault == AccessorOf(code[1], "p").absent.lit

\* C20: the default literal of an enum-typed value is the case of the first
\* enumerator whose value equals the default, and the raw literal unchanged
\* when no enumerator has that value.
C20_EnumDefaultCaseOrRaw ==
    it > 1 =>
        LET field == structs[1].fields[1]
            hits  == {i \in 1..Len(TheEnum.vals) :
                         Digits(TheEnum.vals[i].value) = field.constant}
        IN  IF hits = {}
            THEN EnumFieldDefault = RawLit(field.constant)
            ELSE EnumFieldDefault =
                   CaseLit("E", TheEnum.vals[CHOOSE i \in hits :
                                   \A j \in hits : i <= j].name)

\* A default 9 that no enumerator of the enum 0, 2 has: the literal 9, and
\* generation went on to its end.
C20_Witness ==
    /\ pc = "generated"
    /\ [i \in 1..Len(TheEnum.vals) |-> TheEnum.vals[i].value] = << 0, 2 >>
    /\ structs[1].fields[1].constant = Digits(9)
    /\ EnumFieldDefault = RawLit(Digits(9))

-----------------------------------------------------------------------------
(* Claims about the mutators.                                              *)

\* A scalar (an enum is a scalar with a name) or a vector of scalars.
MutableKind(type) ==
    IsScalar(type.base_type)
       \/ (type.base_type = "vector" /\ IsScalar(type.element))

\* C16: among the fields the emitter emits anything for (those that are
\* not deprecated), a mutator is emitted for a field if and only if the
\* mutable_buffer option is set and the field is a scalar (enum included) or
\* a vector of scalars.  None is emitted for a string, struct, union, vector
\* of structs or vector of strings, none for any field when mutable_buffer
\* is unset, and none for a deprecated field.
C16_MutatorIffMutableAndScalar ==
    \A s \in 1..(it - 1) : \A i \in 1..Len(structs[s].fields) :
        LET field == structs[s].fields[i] IN
        IF field.deprecated THEN ~HasMutator(code[s], field.name)
        ELSE HasMutator(code[s], field.name)
                <=> (opts.mutable_buffer /\ MutableKind(field.type))

\* With mutable_buffer set, a table with a vector of scalars and a string
\* was emitted: a mutator for the first, none for the second.
C16_Witness ==
    /\ pc = "generated"
    /\ opts.mutable_buffer
    /\ ~Target.fixed
    /\ \E i, j \in 1..Len(Target.fields) :
          /\ IsVectorOfScalars(Target.fields[i].type)
          /\ HasMutator(TargetCode, Target.fields[i].name)
          /\ Target.fields[j].type.base_type = "string"
          /\ ~HasMutator(TargetCode, Target.fields[j].name)

\* C17: a mutator of a table field returns false and leaves the buffer as
\* it is when the slot of the field is absent, and returns true after
\* writing the value over the bytes of the field (of the element j, for a
\* vector) when it is present; a mutator of a fixed record writes at the
\* start of the record plus the offset of the field, whatever the buffer
\* holds.  Reading the bytes back gives the value written.
C17_MutatorWritesInPlace ==
    [][(pc = "received" /\ pc' = "mutated") =>
         LET field  == FieldNamed(Target, args'.name)
             i      == CHOOSE k \in 1..Len(Target.fields) :
                          Target.fields[k].name = args'.name
             filled == {k \in 1..Len(vtable) : vtable[k].set}
             under  == IF field.type.base_type = "vector"
                       THEN field.type.element ELSE field.type.base_type
             v      == IF under = "bool"
                       THEN (IF args'.x # 0 THEN 1 ELSE 0) ELSE args'.x
             at     == IF Target.fixed THEN bb_pos + field.offset
                       ELSE IF field.type.base_type = "vector"
                       THEN bb_pos
                            + BlockOffsetIn(structs, Target, filled, i)
                            + 4 + args'.j * SizeOf(under)
                       ELSE bb_pos + FieldOffsetIn(structs, Target, filled, i)
         IN  IF ~Target.fixed /\ i \notin filled
             THEN result' = Returned(FALSE) /\ buf' = buf
             ELSE /\ buf' = PutAt(buf, at, v, SizeOf(under))
                  /\ FromLE(SubSeq(buf', at + 1, at + SizeOf(under))) = v
                  /\ result' = IF Target.fixed THEN Nil ELSE Returned(TRUE)
      ]_vars

\* A table that starts behind another byte, with two fields present: the
\* mutator of the second wrote 300 over its bytes and returned true.
C17_Witness ==
    /\ pc = "mutated"
    /\ ~Target.fixed
    /\ bb_pos > 0
    /\ result = Returned(TRUE)
    /\ args.x = 300
    /\ Len(Target.fields) = 2
    /\ args.name = Target.fields[2].name
    /\ vtable[1].set
    /\ FromLE(SubSeq(buf, bb_pos + vtable[2].o + 1,
                     bb_pos + vtable[2].o + 4)) = 300

-----------------------------------------------------------------------------
(* Claims about generate().                                                *)

NoneMarkedGenerated ==
    /\ \A i \in 1..Len(enums) : ~enums[i].generated
    /\ \A i \in 1..Len(structs) : ~structs[i].generated

\* The fragments of all enums in declaration order, then those of all
\* records in declaration order.
FragmentsInOrder ==
    [i \in 1..(Len(enums) + Len(structs)) |->
        IF i <= Len(enums)
        THEN [name |-> enums[i].name, text |-> GenEnum(enums[i])]
        ELSE [name |-> structs[i - Len(enums)].name,
              text |-> GenStruct(structs, enums, opts,
                                 structs[i - Len(enums)])]]

\* C18: when generate() has returned true for a schema that has entities,
\* none of them marked generated: with one_file set it handed exactly one
\* unit to the writer, whose body is the fragments of all enums in
\* declaration order followed by the fragments of all records in
\* declaration order; with one_file unset it handed one unit per enum and
\* then one unit per record, in that same order, each with the fragment of
\* its entity as body.
C18_UnitsInDeclarationOrder ==
    (pc = "generated" /\ NoneMarkedGenerated
        /\ Len(enums) + Len(structs) > 0)
        => IF opts.one_file
           THEN /\ Len(units) = 1
                /\ units[1].text =
                     Concat([i \in 1..Len(FragmentsInOrder) |->
                               FragmentsInOrder[i].text])
           ELSE /\ Len(units) = Len(FragmentsInOrder)
                /\ \A i \in 1..Len(units) :
                      /\ units[i].name = FragmentsInOrder[i].name
                      /\ units[i].text = FragmentsInOrder[i].text

\* Two enums and two records, none marked generated, in one file.
C18_Witness ==
    /\ pc = "generated"
    /\ opts.one_file
    /\ NoneMarkedGenerated
    /\ Len(enums) = 2 /\ Len(structs) = 2
    /\ Len(units) = 1
    /\ units[1].text # <<>>

-----------------------------------------------------------------------------
(* Claims about unhandled type variants.                                   *)

\* GenTypePointer and the accessor switch of GenStruct end in their default
\* branch for a type that is no scalar, string, vector, struct or union;
\* GenDefaultValueBasic ends in its default branch for a type that is no
\* scalar, string, struct or vector.
InDefaultBranch(type) ==
    /\ ~IsScalar(type.base_type)
    /\ type.base_type \notin {"string", "struct", "vector"}

\* GenStruct has been entered for a record with a field that takes an
\* emitter to its default branch.
ReachedUnhandled ==
    \E s \in 1..Len(structs) :
       /\ s < it \/ (s = it /\ pc = "aborted")
       /\ \E i \in 1..Len(structs[s].fields) :
             /\ ~structs[s].fields[i].deprecated
             /\ InDefaultBranch(structs[s].fields[i].type)

\* C21: once an emitter has reached a type variant it does not handle,
\* generation has aborted and no unit of text has been handed over: no
\* emitter goes on to emit placeholder text.
C21_UnhandledVariantAborts ==
    ReachedUnhandled => (pc = "aborted" /\ units = <<>>)

-----------------------------------------------------------------------------
(* Table round trip.                                                       *)

\* The value of enumerator `name` in the emitted enum `enum`.
EmittedCaseValue(enum, name) ==
    LET k    == CHOOSE k \in 1..Len(enums) : enums[k].name = enum
        toks == ecode[k]
        t    == CHOOSE t \in 1..Len(toks) :
                   toks[t].op = "case" /\ toks[t].name = name
    IN  toks[t].value

\* The number a literal of the emitted code denotes.
LitValue(l) ==
    CASE l.lit = "raw"  -> StringToInt(l.text)
      [] l.lit = "bool" -> IF l.flag THEN 1 ELSE 0
      [] l.lit = "case" -> EmittedCaseValue(l.enum, l.name)

\* The accessor's result r is the value x handed to add<Field>: the stored
\* value itself, or a literal denoting the same number when add<Field> left
\* the slot empty.
ReadsValue(r, x) ==
    IF r.ret = "stored" THEN r.value = x
    ELSE r.ret = "literal" /\ LitValue(r.lit) = LitValue(x)

\* C22: after start<Record>, add calls for a subset S of the non-deprecated
\* fields and end<Record> (or after create<Record>), the accessor of every
\* field in S returns the value that was added, and the accessor of every
\* field left out returns its absence marker or default, whatever was
\* added for the other fields.
C22_TableRoundTrip ==
    pc = "ended" =>
        \A i \in 1..Len(Target.fields) :
           LET field == Target.fields[i] IN
           ~field.deprecated =>
              IF i \in added
              THEN ReadsValue(ReadAccessor(AccessorOf(TargetCode, field.name),
                                           vtable),
                              args[field.name])
              ELSE AbsentReadAsDeclared(field)

\* A table of an int and a string was built with the string added and the
\* int left out: the string reads as the offset added, the int as its
\* default.
C22_Witness ==
    /\ pc = "ended"
    /\ Len(Target.fields) = 2
    /\ Target.fields[1].type.base_type = "int"
    /\ ~Target.fields[1].deprecated
    /\ Target.fields[2].type.base_type = "string"
    /\ added = {2}
    /\ ReadAccessor(AccessorOf(TargetCode, Target.fields[2].name), vtable)
          = [ret |-> "stored", value |-> args[Target.fields[2].name]]

-----------------------------------------------------------------------------
(* Sorted-vector constructor.                                              *)

\* C23: the vector createMySortedVectorOfTables has serialized is in
\* ascending order of the key, by byte comparison for a string key and by
\* numeric comparison otherwise; the offsets are reordered before they are
\* serialized and not afterwards.
C23_SerializedVectorIsKeySorted ==
    pc = "serialized" =>
        IsKeySorted(vec, NativeHow(KeyIsString))

-----------------------------------------------------------------------------
(* Cast and mask of a read.                                                *)

\* The type is an enum, or a vector whose element is one.
ReadsEnum(type) ==
    IF type.base_type = "vector" THEN IsEnum(VectorType(type))
    ELSE IsEnum(type)

\* C24: destinationCast and destinationMask are a matched pair for every
\* field type: for an enum and for a vector of enums the cast is the
\* opening text `<Enum>(rawValue: ` and the mask the closing text `)!`, for
\* every other type both are empty; the accessors carry this pair.
C24_CastAndMaskMatch ==
    pc = "generated" =>
        \A i \in 1..Len(Target.fields) :
           LET type == Target.fields[i].type
               acc  == AccessorOf(TargetCode, Target.fields[i].name)
           IN  /\ IF ReadsEnum(type)
                  THEN /\ DestinationCast(type)
                            = type.enum_def \o "(rawValue: "
                       /\ DestinationMask(type) = ")!"
                  ELSE /\ DestinationCast(type) = ""
                       /\ DestinationMask(type) = ""
               /\ "cast" \in DOMAIN acc
                     => /\ acc.cast = DestinationCast(type)
                        /\ acc.mask = DestinationMask(type)

-----------------------------------------------------------------------------
(* Slot indices.                                                           *)

\* The emitted code has an accessor, or a routine, of this name.
HasAccessor(toks, name) ==
    \E t \in 1..Len(toks) : toks[t].op = "accessor" /\ toks[t].name = name

\* C25: add<Field> writes to the slot whose index is the field's position
\* among all declared fields of the record, deprecated ones counted, and
\* start<Record> announces the number of all declared fields; a deprecated
\* field has neither accessor nor add<Field>, and the slots of the other
\* fields are the ones their accessors read.
C25_SlotIsDeclarationPosition ==
    pc = "generated" =>
        /\ FuncBody(TargetCode, "start")[1].numFields = Len(Target.fields)
        /\ \A i \in 1..Len(Target.fields) :
              LET field == Target.fields[i]
                  name  == "add" \o field.name
              IN  IF field.deprecated
                  THEN /\ FuncAt(TargetCode, name) = 0
                       /\ ~HasAccessor(TargetCode, field.name)
                  ELSE /\ FuncAt(TargetCode, name) # 0
                       /\ HasAccessor(TargetCode, field.name)
                       /\ FuncBody(TargetCode, name)[1].slot = i - 1
                       /\ SlotOf(AccessorOf(TargetCode, field.name).voffset)
                            = FuncBody(TargetCode, name)[1].slot + 1

\* A table whose first field is deprecated was generated: the add of its
\* second field names slot 1 and start announces 2 fields.
C25_Witness ==
    /\ pc = "generated"
    /\ Len(Target.fields) = 2
    /\ Target.fields[1].deprecated
    /\ ~Target.fields[2].deprecated
    /\ FuncBody(TargetCode, "add" \o Target.fields[2].name)[1].slot = 1
    /\ FuncBody(TargetCode, "start")[1].numFields = 2

-----------------------------------------------------------------------------
(* The calls of create<Record>.                                            *)

\* The add calls for `field` among the statements body.
AddCallsFor(body, field) ==
    {t \in 1..Len(body) :
        body[t].op = "callAdd" /\ body[t].name = "add" \o field.name}

\* C26: in an emitted create<Record> the startObject call is the first
\* statement and the end<Record> call the last, every statement between
\* them is an add call, every non-deprecated field has exactly one add call
\* and no deprecated field has one, with and without sortbysize.
C26_CreateAddsEachFieldOnce ==
    (pc = "generated" /\ FuncAt(TargetCode, "create") # 0) =>
        LET body == FuncBody(TargetCode, "create") IN
        /\ body[1].op = "startObject"
        /\ body[Len(body) - 1].op = "callEnd"
        /\ body[Len(body)].op = "endfunc"
        /\ \A t \in 2..(Len(body) - 2) : body[t].op = "callAdd"
        /\ \A i \in 1..Len(Target.fields) :
              Cardinality(AddCallsFor(body, Target.fields[i]))
                 = IF Target.fields[i].deprecated THEN 0 ELSE 1

\* create<Record> was emitted for a table sorted by size with a long, a
\* deprecated field before it, and each live field is added once.
C26_Witness ==
    /\ pc = "generated"
    /\ FuncAt(TargetCode, "create") # 0
    /\ Target.sortbysize
    /\ Len(Target.fields) = 2
    /\ Target.fields[1].deprecated
    /\ Target.fields[2].type.base_type = "long"
    /\ Cardinality(AddCallsFor(FuncBody(TargetCode, "create"),
                               Target.fields[2])) = 1

-----------------------------------------------------------------------------
(* The cursor of the lookup loop.                                          *)

\* The cursor lies within the vector.
CursorWithin(st, sp) == 0 <= st /\ sp >= 0 /\ st + sp <= Len(vec)

\* One iteration of the loop: the cursor lies within the vector, so does
\* the probed index, and the iteration returns or leaves a strictly smaller
\* span within the vector.
LoopIteration ==
    (pc = "loop" /\ span # 0) =>
        /\ CursorWithin(start, span)
        /\ start + Middle(span) \in 0..(Len(vec) - 1)
        /\ \/ pc' = "done" /\ result' = Found(start + Middle(span))
           \/ /\ pc' = "loop"
              /\ span' < span
              /\ CursorWithin(start', span')

\* C27: in every iteration of the emitted lookup loop on a vector of n
\* records, sorted or not, 0 <= start and start + span <= n, the probed
\* index start + middle lies in 0..n-1, and the iteration either returns or
\* leaves span strictly smaller (and not negative): the loop reads inside
\* the vector only and ends.
C27_CursorStaysInsideAndShrinks == [][LoopIteration]_vars

\* The loop ran on a vector that is not sorted, took the smaller-branch and
\* the greater-branch, and ended with nil.
C27_Witness ==
    /\ pc = "done" /\ result = Nil
    /\ probes >= 3
    /\ ~IsKeySorted(vec, NativeHow(KeyIsString))
    /\ \E i, j \in 1..Len(vec) : i < j /\ vec[i] # vec[j]

\* A lookup that has entered its loop returns.
LookupEnds == (pc = "loop") ~> (pc = "done")

-----------------------------------------------------------------------------
(* Failure of the writer.                                                  *)

\* The entities generate() has been through whose fragment is not empty.
FragmentsSoFar ==
    Cardinality({i \in 1..(eit - 1) : GenEnum(enums[i]) # <<>>})
      + Cardinality({i \in 1..(it - 1) :
                        GenStruct(structs, enums, opts, structs[i]) # <<>>})

\* C28: generate() has returned false exactly when the writer rejected the
\* unit handed over last, so no unit is handed over after a rejected one and
\* true is returned only when every unit was accepted; no unit has an empty
\* text, and with one unit per entity the units handed over are as many as
\* the entities gone through whose fragment is not empty: an empty fragment
\* hands over nothing and is no failure.
C28_FalseAtFirstRejectedUnit ==
    /\ \A i \in 1..(Len(units) - 1) : units[i].saved
    /\ (pc = "failed") <=> (units # <<>> /\ ~units[Len(units)].saved)
    /\ \A i \in 1..Len(units) : units[i].text # <<>>
    /\ ~opts.one_file => Len(units) = FragmentsSoFar

\* The writer rejected the second unit, that of the first record, after
\* an enum marked generated handed over nothing; a record is left.
C28_Witness ==
    /\ pc = "failed"
    /\ Len(units) = 2
    /\ Len(enums) = 2 /\ enums[1].generated
    /\ it = 2 /\ Len(structs) = 2

-----------------------------------------------------------------------------
(* Termination of the enum emitter.                                        *)

\* The empty entries of the emitted name table.
Placeholders == {i \in 1..Len(NamesEntries) : NamesEntries[i] = ""}

\* C29: GenEnum comes back from every enum with at least one enumerator and
\* unique values, in whatever order the values are declared, and the
\* gap-filling loop of the name table has put at most range -
\* enumeratorCount empty entries, range being maxValue - minValue + 1.
C29_EnumEmissionTerminates ==
    /\ pc # "exhausted"
    /\ (EnumEmitted /\ NamesEmitted)
          => Cardinality(Placeholders)
                <= (MaxValue - MinValue + 1) - Len(TheEnum.vals)

====
